---- MODULE Spec2Model ----
(***************************************************************************)
(* Load-generation core of the inference benchmark: the retry wrapper      *)
(* retry_async, the streaming executor openai_request, the arrival         *)
(* scheduler get_request and the orchestrator run_benchmark with its       *)
(* semaphore-based concurrency limiter.                                    *)
(*                                                                         *)
(* The specifications are defined over the same variables:                *)
(*   Spec        run_benchmark with request_func = openai_request wrapped  *)
(*               by retry_async(max_attempts=3) (core/request.py l.83)     *)
(*   SpecGeneric run_benchmark with a wrapped coroutine that may also      *)
(*               raise (the raise paths of the wrapper and of the limiter) *)
(*   SpecRetry   one call of a retry_async wrapper around any coroutine    *)
(*   SpecMetrics one call of calculate_metrics on a list of outcomes       *)
(*   SpecExecutor one call of openai_request, line by line, with a clock   *)
(*   SpecTimed   run_benchmark at an unbounded rate with an executor whose *)
(*               calls take exactly one time unit                          *)
(*   SpecLive    Spec with the fairness of the asyncio event loop          *)
(*   SpecApp     the scenario loop of BenchmarkApp._run_benchmark_thread   *)
(***************************************************************************)
EXTENDS Integers, Sequences, FiniteSets, TLC

VARIABLES config, funcKind, pc, raised, main, tasks, sem, released, sent,
          outputs, result, mcall, ex, log, clock, app

vars == <<config, funcKind, pc, raised, main, tasks, sem, released, sent,
          outputs, result, mcall, ex, log, clock, app>>

(***************************************************************************)
(* Bounds                                                                  *)
(***************************************************************************)
MaxReq == 3
MaxConc == 2
MaxReqGeneric == 2
MaxAttemptsBound == 3
MaxOutputs == 2
MaxLines == 3
MaxScenarios == 2

\* @retry_async(max_attempts=3)
MAX_ATTEMPTS == 3

\* core/metrics.py l.15
MILLISECONDS_TO_SECONDS_CONVERSION == 1000

\* input_requests[0], the descriptor of the smoke test and of the profile hooks
SmokeDesc == 1

(***************************************************************************)
(* Values                                                                  *)
(***************************************************************************)
Exceptions == {"ClientConnectorError", "TimeoutError"}
Statuses == {200, 204, 500}
Bodies == {"body"}
LineKinds == {"tok", "empty", "bad", "other", "done", "shape", "entry", "decode"}
Streams == {<<"tok", "bad", "tok", "done">>, <<"tok", "decode">>}

\* sent[k]: how many times the executor was invoked for a request of kind k
SentKinds == {"smoke", "start_profile", "stop_profile", "paced"}
NoneSent == [k \in SentKinds |-> 0]
Count(s, kind) == [s EXCEPT ![kind] = @ + 1]

NoSem == -1
NoInt == -1

\* Optional[str] error of RequestFuncOutput: None, or one of the strings the
\* code builds
NoError == [kind |-> "none"]
StrOf(e) == [kind |-> "str", of |-> e]
HttpError(status, body) == [kind |-> "http", status |-> status, body |-> body]
RetryError(n, e) == [kind |-> "retry", attempts |-> n, last |-> StrOf(e)]

RequestFuncInput(desc, url) ==
    [desc |-> desc, prompt_len |-> desc, url |-> url]

RequestFuncOutput(success, prompt_len, output_tokens, error) ==
    [success |-> success, prompt_len |-> prompt_len,
     output_tokens |-> output_tokens, error |-> error]

NoOutput == [success |-> FALSE, prompt_len |-> NoInt, output_tokens |-> NoInt,
             error |-> [kind |-> "unset"]]

\* what awaiting a coroutine gives: a returned value or a raised exception
Return(v) == [raised |-> FALSE, value |-> v, exc |-> "None"]
Raise(e) == [raised |-> TRUE, value |-> NoOutput, exc |-> e]
NoAwait == [raised |-> FALSE, value |-> NoOutput, exc |-> "None"]

(***************************************************************************)
(* openai_request: the executor                                            *)
(***************************************************************************)
\* the stream loop: counts the data frames that carry a non-empty text,
\* skips every other line, and stops at the first line whose handling raises
RECURSIVE ParseStream(_, _)
ParseStream(lines, tokens) ==
    IF lines = <<>> THEN [exc |-> "None", tokens |-> tokens]
    ELSE LET l == Head(lines) IN
         IF l = "decode" THEN [exc |-> "UnicodeDecodeError", tokens |-> tokens]
         ELSE IF l = "shape" THEN [exc |-> "TypeError", tokens |-> tokens]
         ELSE IF l = "entry" THEN [exc |-> "AttributeError", tokens |-> tokens]
         ELSE IF l = "tok" THEN ParseStream(Tail(lines), tokens + 1)
         ELSE ParseStream(Tail(lines), tokens)

\* what the transport does to one request: the connection fails, or a
\* response with a status arrives whose body or stream is then read
Transports ==
    {[connect |-> "ClientConnectorError", status |-> 0, body |-> "None",
      lines |-> <<>>]}
    \cup {[connect |-> "ok", status |-> s, body |-> b, lines |-> <<>>] :
            s \in Statuses \ {200}, b \in Bodies}
    \cup {[connect |-> "ok", status |-> 500, body |-> "ClientPayloadError",
           lines |-> <<>>]}
    \cup {[connect |-> "ok", status |-> 200, body |-> "None", lines |-> l] :
            l \in Streams}

openai_request_reraise(inp, t) ==
    IF t.connect # "ok" THEN Raise(t.connect)
    ELSE IF t.status # 200
    THEN IF t.body \in Bodies
         THEN Return(RequestFuncOutput(FALSE, inp.prompt_len, NoInt,
                                       HttpError(t.status, t.body)))
         ELSE Raise(t.body)
    ELSE LET p == ParseStream(t.lines, 0) IN
         IF p.exc # "None" THEN Raise(p.exc)
         ELSE Return(RequestFuncOutput(TRUE, inp.prompt_len, p.tokens, NoError))

\* an executor that lets a failed connection escape as an exception
openai_request_connect_raises(inp, t) ==
    IF t.connect # "ok" THEN Raise(t.connect)
    ELSE IF t.status # 200
    THEN IF t.body \in Bodies
         THEN Return(RequestFuncOutput(FALSE, inp.prompt_len, NoInt,
                                       HttpError(t.status, t.body)))
         ELSE Return(RequestFuncOutput(FALSE, inp.prompt_len, NoInt,
                                       StrOf(t.body)))
    ELSE LET p == ParseStream(t.lines, 0) IN
         IF p.exc # "None"
         THEN Return(RequestFuncOutput(FALSE, inp.prompt_len, NoInt, StrOf(p.exc)))
         ELSE Return(RequestFuncOutput(TRUE, inp.prompt_len, p.tokens, NoError))

openai_request(inp, t) ==
    IF t.connect # "ok"
    THEN Return(RequestFuncOutput(FALSE, inp.prompt_len, NoInt, StrOf(t.connect)))
    ELSE IF t.status # 200
    THEN IF t.body \in Bodies
         THEN Return(RequestFuncOutput(FALSE, inp.prompt_len, NoInt,
                                       HttpError(t.status, t.body)))
         ELSE Return(RequestFuncOutput(FALSE, inp.prompt_len, NoInt,
                                       StrOf(t.body)))
    ELSE LET p == ParseStream(t.lines, 0) IN
         IF p.exc # "None"
         THEN Return(RequestFuncOutput(FALSE, inp.prompt_len, NoInt, StrOf(p.exc)))
         ELSE Return(RequestFuncOutput(TRUE, inp.prompt_len, p.tokens, NoError))

NoTransport == [connect |-> "None", status |-> 0, body |-> "None", lines |-> <<>>]

\* the outcomes of one await of the wrapped coroutine, each with the transport
\* behaviour that produced it
FuncResults(kind, inp) ==
    IF kind = "openai_request"
    THEN {[t |-> t, r |-> openai_request(inp, t)] : t \in Transports}
    ELSE IF kind = "timed"
    THEN {[t |-> NoTransport,
           r |-> Return(RequestFuncOutput(TRUE, inp.prompt_len, 2, NoError))]}
    ELSE {[t |-> NoTransport, r |-> Raise(e)] :
             e \in IF kind = "raising" THEN {"TimeoutError"} ELSE Exceptions}
         \cup {[t |-> NoTransport,
                r |-> Return(RequestFuncOutput(TRUE, inp.prompt_len, 2, NoError))],
               [t |-> NoTransport,
                r |-> Return(RequestFuncOutput(FALSE, inp.prompt_len, NoInt,
                                               StrOf("ValueError")))]}

(***************************************************************************)
(* retry_async: the retry wrapper                                          *)
(***************************************************************************)
\* style: how the wrapped function was called: "kw" (request passed as the
\* keyword argument request_func_input, args = ()), "pos_input" (args[0] is a
\* RequestFuncInput), "pos_other" (args[0] is something else)
NewCall(inp, style, max_attempts) ==
    [pc |-> "inflight", input |-> inp, style |-> style,
     max_attempts |-> max_attempts, attempts |-> 0, calls |-> 1, sleeps |-> 0,
     last_exception |-> "None", last |-> NoTransport, got |-> NoAwait,
     result |-> NoOutput, exc |-> "None"]

Exhausted_error_dropped(c) ==
    IF c.style = "kw"
    THEN [c EXCEPT !.pc = "raised", !.exc = "IndexError"]
    ELSE IF c.style = "pos_input"
    THEN [c EXCEPT !.pc = "returned",
                   !.result = RequestFuncOutput(FALSE, c.input.prompt_len, NoInt,
                                                NoError)]
    ELSE [c EXCEPT !.pc = "raised", !.exc = c.last_exception]

\* after the while loop: all attempts failed
Exhausted(c) ==
    IF c.style = "kw"
    THEN [c EXCEPT !.pc = "raised", !.exc = "IndexError"]
    ELSE IF c.style = "pos_input"
    THEN [c EXCEPT !.pc = "returned",
                   !.result = RequestFuncOutput(FALSE, c.input.prompt_len, NoInt,
                                  RetryError(c.max_attempts, c.last_exception))]
    ELSE [c EXCEPT !.pc = "raised", !.exc = c.last_exception]

\* a wrapper that also retries a returned failed outcome
WrapperAfter_retry_failed(c, r) ==
    IF ~r.raised /\ r.value.success
    THEN [c EXCEPT !.pc = "returned", !.result = r.value]
    ELSE LET d == [c EXCEPT !.attempts = @ + 1,
                            !.last_exception = IF r.raised THEN r.exc
                                               ELSE "FailedOutcome"] IN
         IF d.attempts < d.max_attempts
         THEN [d EXCEPT !.pc = "sleep", !.sleeps = @ + 1]
         ELSE Exhausted(d)

\* a wrapper that sleeps after every failed attempt, the last one included
WrapperAfter_sleep_always(c, r) ==
    IF ~r.raised
    THEN [c EXCEPT !.pc = "returned", !.result = r.value]
    ELSE LET d == [c EXCEPT !.attempts = @ + 1, !.last_exception = r.exc,
                            !.sleeps = @ + 1] IN
         IF d.attempts < d.max_attempts
         THEN [d EXCEPT !.pc = "sleep"]
         ELSE Exhausted(d)

\* one pass of the try/except in the while loop, given what the await gave
WrapperAfter(c, r) ==
    IF ~r.raised
    THEN [c EXCEPT !.pc = "returned", !.result = r.value]
    ELSE LET d == [c EXCEPT !.attempts = @ + 1, !.last_exception = r.exc] IN
         IF d.attempts < d.max_attempts
         THEN [d EXCEPT !.pc = "sleep", !.sleeps = @ + 1]
         ELSE Exhausted(d)

\* the sleep is over, the loop condition holds, the function is awaited again
WrapperRetry(c) == [c EXCEPT !.pc = "inflight", !.calls = @ + 1]

Finished(c) == c.pc \in {"returned", "raised"}

NoCall == [NewCall(RequestFuncInput(0, "none"), "kw", MAX_ATTEMPTS)
              EXCEPT !.pc = "idle", !.calls = 0]

(***************************************************************************)
(* get_request and the limiter                                             *)
(***************************************************************************)
get_request_skip_first(n) == [i \in 1..(IF n > 0 THEN n - 1 ELSE 0) |-> i + 1]

get_request_reversed(n) == [i \in 1..n |-> n + 1 - i]

\* the descriptors get_request iterates over: iter(input_requests)
get_request_items(n) == [i \in 1..n |-> i]

\* input_requests: descriptor i carries the prompt length i
InputRequests(n) == [i \in 1..n |-> [desc |-> i, prompt_len |-> i]]

AfterYield_never_sleeps(rate) == "dispatch"

AfterYield_sleep_always(rate) == "sched_sleep"

\* l.221-229 of get_request: after a yield the generator goes on at once when
\* the rate is infinite, else it sleeps for the sampled interval
AfterYield(rate) == IF rate = "inf" THEN "dispatch" ELSE "sched_sleep"

NewSemaphore_single(max_concurrency) ==
    IF max_concurrency # 0 THEN 1 ELSE NoSem

\* asyncio.Semaphore(max_concurrency) if max_concurrency else None
NewSemaphore(max_concurrency) ==
    IF max_concurrency # 0 THEN max_concurrency ELSE NoSem

SemFree_unchecked(s) == TRUE

\* a slot is free
SemFree(s) == s > 0

SemRelease_never(s, exit) == s

SemRelease_not_on_raise(s, exit) == IF exit = "raised" THEN s ELSE s + 1

\* __aexit__ of `async with semaphore`
SemRelease(s, exit) == s + 1

NewTask(d) ==
    [desc |-> d, st |-> "created", held |-> FALSE,
     w |-> [NewCall(RequestFuncInput(d, "paced"), "kw", MAX_ATTEMPTS)
               EXCEPT !.pc = "idle", !.calls = 0]]

TaskIds == DOMAIN tasks
InFlight == Cardinality({i \in TaskIds : tasks[i].held})
Waiting(i) == tasks[i].st = "waiting"

\* the orchestrator coroutine is suspended in an await (or has ended), so the
\* event loop may run the tasks
Suspended == pc \in {"sched_sleep", "gather", "raised", "done"}

(***************************************************************************)
(* calculate_metrics as far as the counts go                               *)
(***************************************************************************)
RECURSIVE CountSuccess(_)
CountSuccess(outs) ==
    IF outs = <<>> THEN 0
    ELSE (IF Head(outs).success THEN 1 ELSE 0) + CountSuccess(Tail(outs))

NoResult ==
    [completed |-> NoInt, total_input |-> NoInt, total_requests |-> NoInt,
     failed |-> NoInt, duration |-> NoInt]

(***************************************************************************)
(* Exact rationals for the float values of calculate_metrics               *)
(***************************************************************************)
RECURSIVE GCD(_, _)
GCD(a, b) == IF b = 0 THEN a ELSE GCD(b, a % b)

Abs(x) == IF x < 0 THEN -x ELSE x

\* n / d for d > 0, in lowest terms
Rat(n, d) == LET g == GCD(Abs(n), d) IN [num |-> n \div g, den |-> d \div g]

Zero == Rat(0, 1)
\* what numpy gives for a statistic of an empty sample
NaN == [num |-> 0, den |-> 0]

\* sums and comparisons go over the least common denominator, products are
\* reduced crosswise first: the intermediate values stay small
RAdd(a, b) ==
    LET c == GCD(a.den, b.den) IN
    Rat(a.num * (b.den \div c) + b.num * (a.den \div c), (a.den \div c) * b.den)
RSub(a, b) == RAdd(a, [num |-> -b.num, den |-> b.den])
RMul(a, b) ==
    LET c == GCD(Abs(a.num), b.den)
        e == GCD(Abs(b.num), a.den) IN
    IF a.num = 0 \/ b.num = 0 THEN Rat(0, 1)
    ELSE Rat((a.num \div c) * (b.num \div e), (a.den \div e) * (b.den \div c))
RDiv(a, b) == RMul(a, [num |-> b.den, den |-> b.num])
RLeq(a, b) ==
    LET c == GCD(a.den, b.den) IN
    a.num * (b.den \div c) <= b.num * (a.den \div c)

\* the sum of s[lo..hi], by halves as numpy's pairwise summation does
RECURSIVE RSumRange(_, _, _)
RSumRange(s, lo, hi) ==
    IF lo > hi THEN Zero
    ELSE IF lo = hi THEN s[lo]
    ELSE LET mid == (lo + hi) \div 2 IN
         RAdd(RSumRange(s, lo, mid), RSumRange(s, mid + 1, hi))

RSum(s) == RSumRange(s, 1, Len(s))

\* the rank of s[i] in ascending order, equal values in index order
Rank(s, i) ==
    Cardinality({j \in DOMAIN s :
        \/ (RLeq(s[j], s[i]) /\ s[j] # s[i])
        \/ (s[j] = s[i] /\ j <= i)})

Sorted(s) ==
    [k \in DOMAIN s |-> s[CHOOSE i \in DOMAIN s : Rank(s, i) = k]]

\* np.mean
Mean(s) == IF s = <<>> THEN NaN ELSE RDiv(RSum(s), Rat(Len(s), 1))

\* np.median
Median(s) ==
    IF s = <<>> THEN NaN
    ELSE LET a == Sorted(s)
             n == Len(s) IN
         IF n % 2 = 1 THEN a[(n + 1) \div 2]
         ELSE RDiv(RAdd(a[n \div 2], a[n \div 2 + 1]), Rat(2, 1))

\* np.std squared (the population variance): the square root is not rational
Variance(s) ==
    IF s = <<>> THEN NaN
    ELSE LET mu == Mean(s) IN
         Mean([i \in DOMAIN s |-> RMul(RSub(s[i], mu), RSub(s[i], mu))])

\* np.percentile, linear interpolation between the closest ranks
Percentile(s, p) ==
    IF s = <<>> THEN NaN
    ELSE LET a == Sorted(s)
             n == Len(s)
             rank == Rat(p * (n - 1), 100)
             lo == rank.num \div rank.den
             frac == RSub(rank, Rat(lo, 1)) IN
         IF lo + 1 >= n THEN a[n]
         ELSE RAdd(a[lo + 1], RMul(frac, RSub(a[lo + 2], a[lo + 1])))

Scale_not_applied(x, k) == x

Scale(x, k) == IF x = NaN THEN NaN ELSE RMul(x, Rat(k, 1))

(***************************************************************************)
(* calculate_metrics                                                       *)
(***************************************************************************)
\* a RequestFuncOutput with its timing fields; text_tokens is the length the
\* tokenizer gives for generated_text
TimedOutput(success, prompt_len, output_tokens, latency, ttft, itl, text_tokens, error) ==
    [success |-> success, prompt_len |-> prompt_len,
     output_tokens |-> output_tokens, latency |-> latency, ttft |-> ttft,
     itl |-> itl, text_tokens |-> text_tokens, error |-> error]

\* selected_percentiles
SelectedPercentiles == {50, 99}

\* l.84-93: the output length of a successful outcome
OutputLen(o) ==
    IF o.output_tokens = NoInt THEN o.text_tokens ELSE o.output_tokens

\* l.95-99: the tpot of a successful outcome
Tpot(o) ==
    IF OutputLen(o) > 1
    THEN RDiv(RSub(o.latency, o.ttft), Rat(OutputLen(o) - 1, 1))
    ELSE Zero

Successes(outs) == SelectSeq(outs, LAMBDA o : o.success)

TpotSample_with_zeros(succ) == [j \in DOMAIN succ |-> Tpot(succ[j])]

\* l.96-99: tpots holds the tpot of the outcomes with more than one token
TpotSample(succ) ==
    LET many == SelectSeq(succ, LAMBDA o : OutputLen(o) > 1) IN
    [j \in DOMAIN many |-> Tpot(many[j])]

RECURSIVE Concat(_)
Concat(ss) == IF ss = <<>> THEN <<>> ELSE Head(ss) \o Concat(Tail(ss))

GoodputSample_all_outputs(outs, key) ==
    IF key = "ttft" THEN [j \in DOMAIN outs |-> outs[j].ttft]
    ELSE IF key = "tpot"
    THEN [j \in DOMAIN outs |-> IF outs[j].success THEN Tpot(outs[j]) ELSE Zero]
    ELSE [j \in DOMAIN outs |-> outs[j].latency]

\* l.113-124: the list that valid_metrics gets for a key of the SLO map:
\* ttfts, all_tpots or e2els, one entry per successful outcome
GoodputSample(outs, key) ==
    LET succ == Successes(outs) IN
    IF key = "ttft" THEN [j \in DOMAIN succ |-> succ[j].ttft]
    ELSE IF key = "tpot" THEN [j \in DOMAIN succ |-> Tpot(succ[j])]
    ELSE [j \in DOMAIN succ |-> succ[j].latency]

SloSeconds_not_converted(ms) == Rat(ms, 1)

\* l.115-124: threshold / MILLISECONDS_TO_SECONDS_CONVERSION
SloSeconds(ms) == Rat(ms, MILLISECONDS_TO_SECONDS_CONVERSION)

SloKeys == {"ttft", "tpot", "e2el"}

\* l.109-129: good_completed
GoodCompleted(outs, goodput) ==
    IF DOMAIN goodput = {} THEN 0
    ELSE LET keys == DOMAIN goodput \cap SloKeys IN
         IF keys = {} THEN 0
         ELSE LET k0 == CHOOSE k \in keys : TRUE
                  rows == DOMAIN GoodputSample(outs, k0) IN
              Cardinality({j \in rows :
                  \A k \in keys :
                      RLeq(GoodputSample(outs, k)[j], SloSeconds(goodput[k]))})

SampleOrZero_raw(s) == s

\* `sample or [0]`
SampleOrZero(s) == IF s = <<>> THEN <<Zero>> ELSE s

\* mean, median, std and percentiles of a sample, in milliseconds (std as
\* its square)
Stats(sample) ==
    LET s == SampleOrZero(sample) IN
    [mean |-> Scale(Mean(s), 1000),
     median |-> Scale(Median(s), 1000),
     std_squared |-> Scale(Variance(s), 1000 * 1000),
     percentiles |-> [p \in SelectedPercentiles |-> Scale(Percentile(s, p), 1000)]]

RECURSIVE SumInts(_)
SumInts(s) == IF s = <<>> THEN 0 ELSE Head(s) + SumInts(Tail(s))

\* l.82-107: actual_output_lens and total_input
ActualOutputLens(outs) ==
    [i \in DOMAIN outs |-> IF outs[i].success THEN OutputLen(outs[i]) ELSE 0]

TotalInput(input_requests, outs) ==
    SumInts([i \in DOMAIN outs |->
                IF outs[i].success THEN input_requests[i].prompt_len ELSE 0])

\* the lists calculate_metrics has built when its loop ends
MetricsLocals(outs) ==
    LET succ == Successes(outs) IN
    [ttfts |-> [j \in DOMAIN succ |-> succ[j].ttft],
     e2els |-> [j \in DOMAIN succ |-> succ[j].latency],
     itls |-> Concat([j \in DOMAIN succ |-> succ[j].itl]),
     tpots |-> TpotSample(succ),
     all_tpots |-> [j \in DOMAIN succ |-> Tpot(succ[j])]]

\* l.48-164: the BenchmarkMetrics record; warned: warnings.warn was called
calculate_metrics(input_requests, outs, dur_s, goodput) ==
    LET loc == MetricsLocals(outs)
        completed == CountSuccess(outs)
        total_input == TotalInput(input_requests, outs)
        total_output == SumInts(ActualOutputLens(outs)) IN
    [completed |-> completed,
     total_input |-> total_input,
     total_output |-> total_output,
     request_throughput |-> RDiv(Rat(completed, 1), dur_s),
     request_goodput |-> RDiv(Rat(GoodCompleted(outs, goodput), 1), dur_s),
     output_throughput |-> RDiv(Rat(total_output, 1), dur_s),
     total_token_throughput |-> RDiv(Rat(total_input + total_output, 1), dur_s),
     ttft |-> Stats(loc.ttfts),
     tpot |-> Stats(loc.tpots),
     itl |-> Stats(loc.itls),
     e2el |-> Stats(loc.e2els),
     warned |-> (completed = 0)]

calculate_success_rate_fraction(completed, total) ==
    IF total = 0 THEN Zero ELSE RDiv(Rat(completed, 1), Rat(total, 1))

\* metrics.py l.253-266
calculate_success_rate(completed, total) ==
    IF total = 0 THEN Zero
    ELSE RMul(RDiv(Rat(completed, 1), Rat(total, 1)), Rat(100, 1))

\* metrics.py l.231-250: the keys are set when concurrency > 0
calculate_per_concurrency_metrics(metrics, concurrency) ==
    IF concurrency > 0
    THEN [per_concurrency_output_throughput |->
              RDiv(metrics.output_throughput, Rat(concurrency, 1)),
          per_concurrency_total_throughput |->
              RDiv(metrics.total_token_throughput, Rat(concurrency, 1))]
    ELSE <<>>

\* benchmark.py l.300-311: what run_benchmark adds to the result
BuildReport(metrics, outs, max_concurrency) ==
    LET total_requests == Len(outs)
        failed_requests == total_requests - metrics.completed IN
    [per_concurrency |->
         IF max_concurrency # 0
         THEN calculate_per_concurrency_metrics(metrics, max_concurrency)
         ELSE <<>>,
     total_requests |-> total_requests,
     failed |-> failed_requests,
     success_rate |-> calculate_success_rate(metrics.completed, total_requests),
     failure_rate |-> calculate_success_rate(failed_requests, total_requests)]

NoMetricsCall ==
    [pc |-> "idle", input_requests |-> <<>>, outputs |-> <<>>, dur_s |-> Zero,
     goodput |-> <<>>, max_concurrency |-> 0, locals |-> <<>>,
     metrics |-> <<>>, report |-> <<>>]

\* the outcomes the calls of SpecMetrics are made of (times in seconds)
OutcomeSamples ==
    {TimedOutput(FALSE, 0, NoInt, Zero, Zero, <<>>, 0,
                 StrOf("ClientConnectorError")),
     TimedOutput(TRUE, 0, 0, Rat(5, 10), Zero, <<>>, 0, NoError),
     TimedOutput(TRUE, 0, 1, Rat(3, 10), Rat(2, 10), <<>>, 1, NoError),
     TimedOutput(TRUE, 0, 3, Rat(6, 10), Rat(2, 10),
                 <<Rat(1, 10), Rat(2, 10)>>, 3, NoError),
     TimedOutput(TRUE, 0, 2, Rat(1, 10), Rat(1, 10), <<Zero>>, 2, NoError),
     TimedOutput(TRUE, 0, NoInt, Rat(4, 10), Rat(3, 10), <<>>, 2, NoError)}

\* three successful outcomes of 10 tokens each: TTFT 0.10, 0.20, 0.15 s and
\* latency 1.0, 1.5, 1.2 s, the tokens after the first 0.1 s apart
ScenarioOutputs ==
    <<TimedOutput(TRUE, 0, 10, Rat(10, 10), Rat(10, 100),
                  [k \in 1..9 |-> Rat(1, 10)], 10, NoError),
      TimedOutput(TRUE, 0, 10, Rat(15, 10), Rat(20, 100),
                  [k \in 1..9 |-> Rat(1, 10)], 10, NoError),
      TimedOutput(TRUE, 0, 10, Rat(12, 10), Rat(15, 100),
                  [k \in 1..9 |-> Rat(1, 10)], 10, NoError)>>

OutcomeLists ==
    {ScenarioOutputs} \cup UNION {[1..n -> OutcomeSamples] : n \in 0..MaxOutputs}

\* goodput_config_dict: thresholds in milliseconds for some of the keys
SloThreshold(k) ==
    CASE k = "ttft" -> 200 [] k = "tpot" -> 150 [] k = "e2el" -> 400
      [] OTHER -> 100

GoodputConfigs ==
    {[k \in ks |-> SloThreshold(k)] : ks \in SUBSET (SloKeys \cup {"other"})}

Durations == {Rat(2, 1), Rat(1, 2)}

(***************************************************************************)
(* openai_request line by line, with the clock it reads                    *)
(***************************************************************************)
\* the streams of a call that is followed line by line
ExStreams == Streams \cup UNION {[1..n -> LineKinds] : n \in 0..MaxLines}

ExTransports ==
    {t \in Transports : t.connect # "ok" \/ t.status # 200}
    \cup {[connect |-> "ok", status |-> 200, body |-> "None", lines |-> l] :
            l \in ExStreams}

\* l.94-100: the locals of openai_request when it is entered; now is the
\* clock that time.time() reads
NewExecutorCall(inp, t) ==
    [pc |-> "call", input |-> inp, t |-> t, rest |-> t.lines, now |-> 0,
     start_time |-> 0, output_tokens |-> 0, ttft |-> 0, itl |-> <<>>,
     first_token_received |-> FALSE, prev_token_time |-> 0,
     out |-> TimedOutput(FALSE, NoInt, NoInt, 0, 0, <<>>, 0, [kind |-> "unset"])]

NoExecutorCall ==
    [NewExecutorCall(RequestFuncInput(0, "none"), NoTransport)
        EXCEPT !.pc = "idle"]

\* l.134-135, l.179-181: the failed outcome
ExFailed(e, err) ==
    [e EXCEPT !.pc = "done",
              !.out = TimedOutput(FALSE, e.input.prompt_len, NoInt, 0, 0, <<>>,
                                  0, err)]

OnToken_prev_not_updated(e, now) ==
    [e EXCEPT !.output_tokens = @ + 1,
              !.ttft = IF e.first_token_received THEN @ ELSE now - e.start_time,
              !.first_token_received = TRUE,
              !.itl = IF e.first_token_received
                      THEN Append(@, now - e.prev_token_time) ELSE @]

OnToken_itl_from_first(e, now) ==
    [e EXCEPT !.output_tokens = @ + 1,
              !.ttft = IF e.first_token_received THEN @ ELSE now - e.start_time,
              !.first_token_received = TRUE,
              !.itl = Append(@, now - e.prev_token_time),
              !.prev_token_time = now]

\* l.148-159: a frame with a non-empty text
OnToken(e, now) ==
    [e EXCEPT !.output_tokens = @ + 1,
              !.ttft = IF e.first_token_received THEN @ ELSE now - e.start_time,
              !.first_token_received = TRUE,
              !.itl = IF e.first_token_received
                      THEN Append(@, now - e.prev_token_time) ELSE @,
              !.prev_token_time = now]

HandleLine_shape_skipped(e, kind, now) ==
    IF kind = "decode" THEN ExFailed(e, StrOf("UnicodeDecodeError"))
    ELSE IF kind = "tok" THEN OnToken(e, now)
    ELSE e

HandleLine_bad_aborts(e, kind, now) ==
    IF kind \in {"decode", "bad"} THEN ExFailed(e, StrOf("UnicodeDecodeError"))
    ELSE IF kind = "shape" THEN ExFailed(e, StrOf("TypeError"))
    ELSE IF kind = "entry" THEN ExFailed(e, StrOf("AttributeError"))
    ELSE IF kind = "tok" THEN OnToken(e, now)
    ELSE e

\* l.140-161: one line of the stream. "decode": not UTF-8; "other": no
\* "data: " prefix; "done": ends with [DONE]; "bad": not JSON (skipped);
\* "shape": JSON that is no object, or a text that is no string; "entry": a
\* choices entry that is no object; "empty": no choices or an empty text;
\* "tok": a non-empty text
HandleLine(e, kind, now) ==
    IF kind = "decode" THEN ExFailed(e, StrOf("UnicodeDecodeError"))
    ELSE IF kind = "shape" THEN ExFailed(e, StrOf("TypeError"))
    ELSE IF kind = "entry" THEN ExFailed(e, StrOf("AttributeError"))
    ELSE IF kind = "tok" THEN OnToken(e, now)
    ELSE e

\* an executor for which a stream without a token is a failure
ExSucceeded_needs_token(e, now) ==
    IF e.output_tokens = 0 THEN ExFailed(e, StrOf("EmptyStream"))
    ELSE [e EXCEPT !.pc = "done",
                   !.out = TimedOutput(TRUE, e.input.prompt_len, e.output_tokens,
                                       now - e.start_time, e.ttft, e.itl,
                                       e.output_tokens, NoError)]

\* l.163-177: the stream has ended
ExSucceeded(e, now) ==
    [e EXCEPT !.pc = "done",
              !.out = TimedOutput(TRUE, e.input.prompt_len, e.output_tokens,
                                  now - e.start_time, e.ttft, e.itl,
                                  e.output_tokens, NoError)]

\* l.132: if response.status != 200
StatusHealthy(status) == status = 200

\* l.128-135: the response has arrived, or the connection has failed
AfterPost(e) ==
    IF e.t.connect # "ok" THEN ExFailed(e, StrOf(e.t.connect))
    ELSE IF ~StatusHealthy(e.t.status)
    THEN IF e.t.body \in Bodies
         THEN ExFailed(e, HttpError(e.t.status, e.t.body))
         ELSE ExFailed(e, StrOf(e.t.body))
    ELSE [e EXCEPT !.pc = "stream", !.first_token_received = FALSE,
                   !.prev_token_time = e.start_time]

\* what the step-by-step call leaves of the outcome when the times are dropped
Untimed(o) == RequestFuncOutput(o.success, o.prompt_len, o.output_tokens, o.error)

(***************************************************************************)
(* Time and the log callback                                               *)
(***************************************************************************)
\* how long one call of the executor takes: exactly one time unit for the
\* executor of the timed scenario; the other executors are not timed
ExecLatency(kind) == IF kind = "timed" THEN 1 ELSE 0

\* now: the clock; due[0], due[i]: when the call of the orchestrator itself
\* and the call of task i have their outcome; start: benchmark_start_time
\* (l.222); joined: when gather returned (l.250); sleeps, slept: how many
\* sleeps get_request has begun and ended (request.py l.229)
NoClock(n) ==
    [now |-> 0, start |-> 0, joined |-> 0, due |-> [i \in 0..n |-> 0],
     sleeps |-> 0, slept |-> 0]

Called(c, i, kind) == [c EXCEPT !.due[i] = c.now + ExecLatency(kind)]

Due(c, i) == c.due[i] <= c.now

BenchmarkDuration_at_join(c) == c.joined - c.start

\* l.274: benchmark_duration = time.perf_counter() - benchmark_start_time
BenchmarkDuration(c) == c.now - c.start

\* l.159-166, l.173-175: what run_benchmark logs after the smoke test
SmokeLog(c, nxt) ==
    IF c.pc = "raised" THEN <<>>
    ELSE IF ~c.result.success THEN <<"smoke_failed">>
    ELSE IF nxt = "start_profile" THEN <<"smoke_ok", "profiler_starting">>
    ELSE <<"smoke_ok">>

\* l.191-193, l.270-272: what run_benchmark logs after a profile hook request
HookLog(c, msg) ==
    IF c.pc = "returned" /\ c.result.success THEN <<msg>> ELSE <<>>

(***************************************************************************)
(* BenchmarkApp._run_benchmark_thread: the scenario loop (ui/app.py)       *)
(***************************************************************************)
\* what task.result() gives for run_benchmark: a result dict, an empty value,
\* or the exception the coroutine raised
RunOutcomes == {"result", "empty", "raised"}

\* l.249-257: the counters of the thread; i: the number of scenarios the loop
\* has taken up; started, returned: calls of run_benchmark begun and ended;
\* all_round_results and failed_scenarios_info hold scenario indexes
NewApp(selected) ==
    [pc |-> "loop", selected |-> selected, i |-> 0, scenario_count |-> 0,
     failed_scenarios |-> 0, failed_scenarios_info |-> <<>>,
     all_round_results |-> <<>>, started |-> 0, returned |-> 0]

NoApp == [NewApp(0) EXCEPT !.pc = "idle"]

\* l.362-374: the else branch of `if results` and the except clause record
\* the scenario as failed; the loop goes on with time.sleep (l.377)
AppFailed(a) ==
    [a EXCEPT !.failed_scenarios = @ + 1,
              !.failed_scenarios_info = Append(@, a.i),
              !.pc = "sleep"]

(***************************************************************************)
(* Initial states                                                          *)
(***************************************************************************)
Configs ==
    [backend : {"openai", "unknown"}, n : 0..MaxReq, burstiness : {-1, 0, 1},
     request_rate : {"inf", "finite"}, profile : BOOLEAN,
     max_concurrency : 0..MaxConc]

InitRun(kind, configs) ==
    /\ config \in configs
    /\ funcKind = kind
    /\ pc = "start"
    /\ raised = "None"
    /\ main = NoCall
    /\ tasks = <<>>
    /\ sem = NoSem
    /\ released = 0
    /\ sent = NoneSent
    /\ outputs = <<>>
    /\ result = NoResult
    /\ mcall = NoMetricsCall
    /\ ex = NoExecutorCall
    /\ log = <<>>
    /\ clock = NoClock(config.n)
    /\ app = NoApp

Init == InitRun("openai_request", Configs)

InitGeneric ==
    InitRun("raising", {c \in Configs : c.backend = "openai" /\ c.burstiness = 1
                                         /\ c.n \in 1..MaxReqGeneric})

InitRetry ==
    /\ config = [backend |-> "openai", n |-> 0, burstiness |-> 1,
                 request_rate |-> "inf", profile |-> FALSE,
                 max_concurrency |-> 0]
    /\ funcKind \in {"generic", "openai_request"}
    /\ pc = "retry"
    /\ raised = "None"
    /\ \E style \in {"kw", "pos_input", "pos_other"},
          m \in 1..MaxAttemptsBound, d \in 1..2 :
            main = NewCall(RequestFuncInput(d, "paced"), style, m)
    /\ tasks = <<>>
    /\ sem = NoSem
    /\ released = 0
    /\ sent = NoneSent
    /\ outputs = <<>>
    /\ result = NoResult
    /\ mcall = NoMetricsCall
    /\ ex = NoExecutorCall
    /\ log = <<>>
    /\ clock = NoClock(config.n)
    /\ app = NoApp

(***************************************************************************)
(* run_benchmark                                                           *)
(***************************************************************************)
StartMain(kind) ==
    /\ main' = NewCall(RequestFuncInput(SmokeDesc, kind), "kw", MAX_ATTEMPTS)
    /\ sent' = Count(sent, kind)
    /\ clock' = Called(clock, 0, funcKind)

Abort(err) ==
    /\ pc' = "raised"
    /\ raised' = err

ConfigError_unchecked(c) == "None"

\* l.131-137: the backend is looked up in ASYNC_REQUEST_FUNCS; l.143:
\* input_requests[0] of an empty list
ConfigError(c) ==
    IF c.backend # "openai" THEN "ValueError_backend"
    ELSE IF c.n = 0 THEN "IndexError"
    ELSE "None"

\* l.131-158: backend lookup, input_requests[0], the smoke-test request is sent
Validate ==
    /\ pc = "start"
    /\ IF ConfigError(config) = "ValueError_backend"
       THEN /\ Abort("ValueError_backend")
            /\ log' = log \o <<"begin", "unknown_backend">>
            /\ UNCHANGED <<main, sent, clock>>
       ELSE IF ConfigError(config) = "IndexError"
       THEN /\ Abort("IndexError")
            /\ log' = log \o <<"begin", "smoke_begin">>
            /\ UNCHANGED <<main, sent, clock>>
       ELSE /\ pc' = "smoke"
            /\ StartMain("smoke")
            /\ log' = log \o <<"begin", "smoke_begin">>
            /\ UNCHANGED raised
    /\ UNCHANGED <<mcall, ex>>
    /\ UNCHANGED <<app, config, funcKind, tasks, sem, released, outputs, result>>

\* the awaited request of the orchestrator itself (smoke test, profile hooks)
\* or of the single wrapper call of SpecRetry has an outcome
MainComplete ==
    /\ main.pc = "inflight"
    /\ Due(clock, 0)
    /\ \E o \in FuncResults(funcKind, main.input) :
          main' = WrapperAfter([main EXCEPT !.last = o.t, !.got = o.r], o.r)
    /\ UNCHANGED <<mcall, ex, log, clock>>
    /\ UNCHANGED <<app, config, funcKind, pc, raised, tasks, sem, released, sent,
                   outputs, result>>

MainSleepDone ==
    /\ main.pc = "sleep"
    /\ main' = WrapperRetry(main)
    /\ sent' = IF pc = "retry" THEN sent ELSE Count(sent, main.input.url)
    /\ clock' = Called(clock, 0, funcKind)
    /\ UNCHANGED <<mcall, ex, log>>
    /\ UNCHANGED <<app, config, funcKind, pc, raised, tasks, sem, released,
                   outputs, result>>

AfterSmoke_ignore_failure(c, profile) ==
    IF c.pc = "raised" THEN "raised"
    ELSE IF profile THEN "start_profile" ELSE "paced"

AfterSmoke_no_start_profile(c, profile) ==
    IF c.pc = "raised" THEN "raised"
    ELSE IF ~c.result.success THEN "raised"
    ELSE "paced"

\* l.159-173: what follows the smoke-test request
AfterSmoke(c, profile) ==
    IF c.pc = "raised" THEN "raised"
    ELSE IF ~c.result.success THEN "raised"
    ELSE IF profile THEN "start_profile" ELSE "paced"

SmokeCheck ==
    /\ pc = "smoke"
    /\ Finished(main)
    /\ LET nxt == AfterSmoke(main, config.profile) IN
         /\ pc' = nxt
         /\ raised' = IF nxt # "raised" THEN raised
                      ELSE IF main.pc = "raised" THEN main.exc
                      ELSE "ValueError_smoke"
         /\ IF nxt = "start_profile" THEN StartMain("start_profile")
            ELSE UNCHANGED <<main, sent, clock>>
         /\ log' = log \o SmokeLog(main, nxt)
    /\ UNCHANGED <<mcall, ex>>
    /\ UNCHANGED <<app, config, funcKind, tasks, sem, released, outputs, result>>

\* l.190-193
StartProfileDone ==
    /\ pc = "start_profile"
    /\ Finished(main)
    /\ IF main.pc = "raised" THEN Abort(main.exc)
       ELSE pc' = "paced" /\ UNCHANGED raised
    /\ log' = log \o HookLog(main, "profiler_started")
    /\ UNCHANGED <<mcall, ex, clock>>
    /\ UNCHANGED <<app, config, funcKind, main, tasks, sem, released, sent,
                   outputs, result>>

\* l.207-216 and the start of get_request (l.212-216)
StartPacedRun ==
    /\ pc = "paced"
    /\ sem' = NewSemaphore(config.max_concurrency)
    /\ IF config.burstiness > 0
       THEN pc' = "dispatch" /\ UNCHANGED raised
       ELSE Abort("AssertionError")
    /\ log' = Append(log, "run_parameters")
    /\ clock' = [clock EXCEPT !.start = clock.now]
    /\ UNCHANGED <<mcall, ex>>
    /\ UNCHANGED <<app, config, funcKind, main, tasks, released, sent, outputs,
                   result>>

\* get_request yields the next descriptor and run_benchmark creates its task
\* (l.218-219, l.225-248); with a finite rate get_request then sleeps
Release ==
    /\ pc = "dispatch"
    /\ released < Len(get_request_items(config.n))
    /\ released' = released + 1
    /\ tasks' = Append(tasks, NewTask(get_request_items(config.n)[released + 1]))
    /\ pc' = AfterYield(config.request_rate)
    /\ clock' = IF AfterYield(config.request_rate) = "sched_sleep"
                THEN [clock EXCEPT !.sleeps = @ + 1]
                ELSE clock
    /\ UNCHANGED <<mcall, ex, log>>
    /\ UNCHANGED <<app, config, funcKind, raised, main, sem, sent, outputs, result>>

\* l.229: the sampled interval has elapsed
SchedWake ==
    /\ pc = "sched_sleep"
    /\ pc' = "dispatch"
    /\ clock' = [clock EXCEPT !.slept = @ + 1]
    /\ UNCHANGED <<mcall, ex, log>>
    /\ UNCHANGED <<app, config, funcKind, raised, main, tasks, sem, released, sent,
                   outputs, result>>

\* the input is exhausted: run_benchmark awaits gather (l.250)
EndDispatch ==
    /\ pc = "dispatch"
    /\ released = Len(get_request_items(config.n))
    /\ pc' = "gather"
    /\ UNCHANGED <<mcall, ex, log, clock>>
    /\ UNCHANGED <<app, config, funcKind, raised, main, tasks, sem, released, sent,
                   outputs, result>>

(***************************************************************************)
(* limited_request_func: one task per released descriptor                  *)
(***************************************************************************)
Invoke(i, held) ==
    /\ tasks' = [tasks EXCEPT ![i].st = "running", ![i].held = held,
                              ![i].w = WrapperRetry(@)]
    /\ sent' = Count(sent, "paced")
    /\ clock' = Called(clock, i, funcKind)

\* the task runs for the first time: it calls the executor at once when there
\* is no limiter or a slot is free, else it waits for a slot
TaskStart(i) ==
    /\ Suspended
    /\ tasks[i].st = "created"
    /\ \A j \in 1..(i - 1) : tasks[j].st # "created"
    /\ IF sem = NoSem
       THEN Invoke(i, FALSE) /\ UNCHANGED sem
       ELSE IF SemFree(sem) /\ ~\E j \in TaskIds : Waiting(j)
       THEN Invoke(i, TRUE) /\ sem' = sem - 1
       ELSE /\ tasks' = [tasks EXCEPT ![i].st = "waiting"]
            /\ UNCHANGED <<sem, sent, clock>>
    /\ UNCHANGED <<mcall, ex, log>>
    /\ UNCHANGED <<app, config, funcKind, pc, raised, main, released, outputs,
                   result>>

\* the first waiter gets the slot that was released
TaskWake(i) ==
    /\ Suspended
    /\ Waiting(i)
    /\ \A j \in 1..(i - 1) : ~Waiting(j)
    /\ SemFree(sem)
    /\ Invoke(i, TRUE)
    /\ sem' = sem - 1
    /\ UNCHANGED <<mcall, ex, log>>
    /\ UNCHANGED <<app, config, funcKind, pc, raised, main, released, outputs,
                   result>>

\* the awaited executor call of task i has an outcome; when the wrapper ends,
\* the `async with` block is left and the slot released
TaskComplete(i) ==
    /\ Suspended
    /\ tasks[i].st = "running"
    /\ tasks[i].w.pc = "inflight"
    /\ Due(clock, i)
    /\ \E o \in FuncResults(funcKind, tasks[i].w.input) :
         LET w2 == WrapperAfter([tasks[i].w EXCEPT !.last = o.t, !.got = o.r],
                                  o.r) IN
           IF Finished(w2)
           THEN /\ tasks' = [tasks EXCEPT ![i].w = w2, ![i].st = "done",
                                          ![i].held = FALSE]
                /\ sem' = IF tasks[i].held THEN SemRelease(sem, w2.pc) ELSE sem
           ELSE /\ tasks' = [tasks EXCEPT ![i].w = w2]
                /\ UNCHANGED sem
    /\ UNCHANGED <<mcall, ex, log, clock>>
    /\ UNCHANGED <<app, config, funcKind, pc, raised, main, released, sent, outputs,
                   result>>

TaskSleepDone(i) ==
    /\ Suspended
    /\ tasks[i].st = "running"
    /\ tasks[i].w.pc = "sleep"
    /\ Invoke(i, tasks[i].held)
    /\ UNCHANGED <<mcall, ex, log>>
    /\ UNCHANGED <<app, config, funcKind, pc, raised, main, sem, released, outputs,
                   result>>

(***************************************************************************)
(* join, stop hook, aggregation                                            *)
(***************************************************************************)
AllDone_first_only == tasks = <<>> \/ tasks[1].st = "done"

AllDone_but_one == Cardinality({i \in TaskIds : tasks[i].st # "done"}) <= 1

AllDone == \A i \in TaskIds : tasks[i].st = "done"

SomeRaised_or_failed ==
    \E i \in TaskIds : /\ tasks[i].st = "done"
                        /\ (tasks[i].w.pc = "raised"
                              \/ ~tasks[i].w.result.success)

SomeRaised == \E i \in TaskIds : tasks[i].st = "done" /\ tasks[i].w.pc = "raised"

GatherOutputs_reversed(ts) == [i \in DOMAIN ts |-> ts[Len(ts) + 1 - i].w.result]

GatherOutputs_successes(ts) ==
    LET all == [i \in DOMAIN ts |-> ts[i].w.result] IN
    SelectSeq(all, LAMBDA o : o.success)

\* the list asyncio.gather returns: the tasks' results in task order
GatherOutputs(ts) == [i \in DOMAIN ts |-> ts[i].w.result]

\* l.250-252: gather returns the outcomes in task order once every task is
\* done, and raises as soon as one task has raised
Gather ==
    /\ pc = "gather"
    /\ IF SomeRaised
       THEN /\ Abort("TaskException")
            /\ UNCHANGED <<outputs, main, sent, log, clock>>
       ELSE /\ AllDone
            /\ outputs' = GatherOutputs(tasks)
            /\ UNCHANGED raised
            /\ IF config.profile
               THEN /\ pc' = "stop_profile"
                    /\ main' = NewCall(RequestFuncInput(SmokeDesc, "stop_profile"),
                                       "kw", MAX_ATTEMPTS)
                    /\ sent' = Count(sent, "stop_profile")
                    /\ clock' = Called([clock EXCEPT !.joined = clock.now], 0,
                                       funcKind)
                    /\ log' = Append(log, "profiler_stopping")
               ELSE /\ pc' = "aggregate"
                    /\ clock' = [clock EXCEPT !.joined = clock.now]
                    /\ UNCHANGED <<main, sent, log>>
    /\ UNCHANGED <<mcall, ex>>
    /\ UNCHANGED <<app, config, funcKind, tasks, sem, released, result>>

\* l.269-272
StopProfileDone ==
    /\ pc = "stop_profile"
    /\ Finished(main)
    /\ IF main.pc = "raised" THEN Abort(main.exc)
       ELSE pc' = "aggregate" /\ UNCHANGED raised
    /\ log' = log \o HookLog(main, "profiler_stopped")
    /\ UNCHANGED <<mcall, ex, clock>>
    /\ UNCHANGED <<app, config, funcKind, main, tasks, sem, released, sent,
                   outputs, result>>

\* l.279-311
Aggregate ==
    /\ pc = "aggregate"
    /\ result' = [completed |-> CountSuccess(outputs),
                  total_input |-> TotalInput(InputRequests(config.n), outputs),
                  total_requests |-> Len(outputs),
                  failed |-> Len(outputs) - CountSuccess(outputs),
                  duration |-> BenchmarkDuration(clock)]
    /\ pc' = "done"
    /\ log' = Append(log, "summary")
    /\ UNCHANGED <<mcall, ex, clock>>
    /\ UNCHANGED <<app, config, funcKind, raised, main, tasks, sem, released, sent,
                   outputs>>

(***************************************************************************)
(* Specifications                                                          *)
(***************************************************************************)
Orchestrator ==
    \/ Validate
    \/ SmokeCheck
    \/ StartProfileDone
    \/ StartPacedRun
    \/ Release
    \/ SchedWake
    \/ EndDispatch
    \/ Gather
    \/ StopProfileDone
    \/ Aggregate

Next ==
    \/ Orchestrator
    \/ MainComplete
    \/ \E i \in TaskIds : TaskStart(i)
    \/ \E i \in TaskIds : TaskWake(i)
    \/ \E i \in TaskIds : TaskComplete(i)

NextGeneric ==
    \/ Next
    \/ MainSleepDone
    \/ \E i \in TaskIds : TaskSleepDone(i)

NextRetry ==
    \/ MainComplete
    \/ MainSleepDone

Spec == Init /\ [][Next]_vars

SpecGeneric == InitGeneric /\ [][NextGeneric]_vars

SpecRetry == InitRetry /\ [][NextRetry]_vars

InitMetrics ==
    /\ config = [backend |-> "openai", n |-> 0, burstiness |-> 1,
                 request_rate |-> "inf", profile |-> FALSE,
                 max_concurrency |-> 0]
    /\ funcKind = "openai_request"
    /\ pc = "metrics"
    /\ raised = "None"
    /\ main = NoCall
    /\ tasks = <<>>
    /\ sem = NoSem
    /\ released = 0
    /\ sent = NoneSent
    /\ outputs = <<>>
    /\ result = NoResult
    /\ \E outs \in OutcomeLists, d \in Durations, g \in GoodputConfigs,
          cap \in {0, MaxConc} :
          mcall = [NoMetricsCall EXCEPT
                      !.max_concurrency = cap,
                      !.pc = "call",
                      !.input_requests =
                          [i \in DOMAIN outs |-> RequestFuncInput(i, "paced")],
                      !.outputs =
                          [i \in DOMAIN outs |-> [outs[i] EXCEPT !.prompt_len = i]],
                      !.dur_s = d,
                      !.goodput = g]
    /\ ex = NoExecutorCall
    /\ log = <<>>
    /\ clock = NoClock(config.n)
    /\ app = NoApp

\* calculate_metrics runs on the arguments of the call
CalculateMetrics ==
    /\ mcall.pc = "call"
    /\ mcall' = [mcall EXCEPT
                    !.pc = "done",
                    !.locals = MetricsLocals(mcall.outputs),
                    !.metrics = calculate_metrics(mcall.input_requests,
                                    mcall.outputs, mcall.dur_s, mcall.goodput)]
    /\ UNCHANGED <<app, config, funcKind, pc, raised, main, tasks, sem, released,
                   sent, outputs, result, ex, log, clock>>

\* benchmark.py l.300-311: the derived values are added to the result
BuildResult ==
    /\ mcall.pc = "done"
    /\ mcall' = [mcall EXCEPT
                    !.pc = "reported",
                    !.report = BuildReport(mcall.metrics, mcall.outputs,
                                           mcall.max_concurrency)]
    /\ UNCHANGED <<app, config, funcKind, pc, raised, main, tasks, sem, released,
                   sent, outputs, result, ex, log, clock>>

NextMetrics == CalculateMetrics \/ BuildResult

SpecMetrics == InitMetrics /\ [][NextMetrics]_vars

\* the scenario of 20 descriptors under a cap of 4, and the small
\* configurations, all valid and with an unbounded rate
TimedConfigs ==
    {[backend |-> "openai", n |-> 20, burstiness |-> 1, request_rate |-> "inf",
      profile |-> FALSE, max_concurrency |-> 4]}
    \cup {c \in Configs : /\ c.backend = "openai" /\ c.burstiness = 1
                          /\ c.n >= 1 /\ c.request_rate = "inf"}

InitTimed == InitRun("timed", TimedConfigs)

\* the steps of the event loop, which take no time
Loop ==
    \/ Validate
    \/ MainComplete
    \/ SmokeCheck
    \/ StartProfileDone
    \/ StartPacedRun
    \/ Release
    \/ EndDispatch
    \/ \E i \in TaskIds : TaskStart(i)
    \/ \E i \in TaskIds : TaskWake(i)
    \/ \E i \in TaskIds : TaskComplete(i)
    \/ Gather
    \/ StopProfileDone
    \/ Aggregate

\* a call of the executor is under way and its outcome is not due yet
Pending ==
    \/ main.pc = "inflight" /\ ~Due(clock, 0)
    \/ \E i \in TaskIds : /\ tasks[i].st = "running"
                           /\ tasks[i].w.pc = "inflight"
                           /\ ~Due(clock, i)

\* time passes while the event loop has nothing to run
Tick ==
    /\ ~ENABLED Loop
    /\ Pending
    /\ clock' = [clock EXCEPT !.now = @ + 1]
    /\ UNCHANGED <<app, config, funcKind, pc, raised, main, tasks, sem, released,
                   sent, outputs, result, mcall, ex, log>>

NextTimed == Loop \/ Tick

SpecTimed == InitTimed /\ [][NextTimed]_vars

\* the other components do not take part in a single call of a function
Standalone(at) ==
    /\ config = [backend |-> "openai", n |-> 0, burstiness |-> 1,
                 request_rate |-> "inf", profile |-> FALSE,
                 max_concurrency |-> 0]
    /\ funcKind = "openai_request"
    /\ pc = at
    /\ raised = "None"
    /\ main = NoCall
    /\ tasks = <<>>
    /\ sem = NoSem
    /\ released = 0
    /\ sent = NoneSent
    /\ outputs = <<>>
    /\ result = NoResult
    /\ log = <<>>
    /\ clock = NoClock(0)
    /\ app = NoApp

InitExecutor ==
    /\ Standalone("executor")
    /\ mcall = NoMetricsCall
    /\ \E t \in ExTransports, d \in 1..2, now \in 0..1 :
          ex = [NewExecutorCall(RequestFuncInput(d, "paced"), t)
                   EXCEPT !.now = now]

\* the clock does not go back
Later(now) == {now, now + 1}

ExUnchanged ==
    UNCHANGED <<app, config, funcKind, pc, raised, main, tasks, sem, released, sent,
                outputs, result, mcall, log, clock>>

\* l.94: start_time = time.time()
ExBegin ==
    /\ ex.pc = "call"
    /\ ex' = [ex EXCEPT !.pc = "post", !.start_time = ex.now]
    /\ ExUnchanged

\* l.128-138: session.post
ExPost ==
    /\ ex.pc = "post"
    /\ \E now \in Later(ex.now) : ex' = AfterPost([ex EXCEPT !.now = now])
    /\ ExUnchanged

\* l.140-161: the next line of response.content
ExLine ==
    /\ ex.pc = "stream"
    /\ ex.rest # <<>>
    /\ \E now \in Later(ex.now) :
          ex' = HandleLine([ex EXCEPT !.now = now, !.rest = Tail(@)],
                           Head(ex.rest), now)
    /\ ExUnchanged

\* l.163-177: response.content is exhausted
ExEnd ==
    /\ ex.pc = "stream"
    /\ ex.rest = <<>>
    /\ \E now \in Later(ex.now) :
          ex' = ExSucceeded([ex EXCEPT !.now = now], now)
    /\ ExUnchanged

\* the outcome as calculate_metrics reads it, its times in seconds
InSeconds(o) ==
    TimedOutput(o.success, o.prompt_len, o.output_tokens, Rat(o.latency, 1),
                Rat(o.ttft, 1), [k \in DOMAIN o.itl |-> Rat(o.itl[k], 1)],
                o.text_tokens, o.error)

\* benchmark.py l.279-287: the outcome of the call is handed to
\* calculate_metrics, with a duration that ends after the call has returned
ExMeasure ==
    /\ ex.pc = "done"
    /\ mcall.pc = "idle"
    /\ LET outs == <<InSeconds(ex.out)>>
           reqs == <<ex.input>>
           dur == Rat(ex.now + 1, 1) IN
       mcall' = [NoMetricsCall EXCEPT
                    !.pc = "done",
                    !.input_requests = reqs,
                    !.outputs = outs,
                    !.dur_s = dur,
                    !.locals = MetricsLocals(outs),
                    !.metrics = calculate_metrics(reqs, outs, dur, <<>>)]
    /\ UNCHANGED <<app, config, funcKind, pc, raised, main, tasks, sem, released,
                   sent, outputs, result, ex, log, clock>>

\* l.61-63: the await of the wrapper around the call gets what it returned
ExReturn ==
    /\ ex.pc = "done"
    /\ main.pc = "idle"
    /\ LET r == Return(Untimed(ex.out)) IN
       main' = WrapperAfter([NewCall(ex.input, "kw", MAX_ATTEMPTS)
                                EXCEPT !.last = ex.t, !.got = r], r)
    /\ UNCHANGED <<app, config, funcKind, pc, raised, tasks, sem, released, sent,
                   outputs, result, mcall, ex, log, clock>>

NextExecutor == ExBegin \/ ExPost \/ ExLine \/ ExEnd \/ ExMeasure \/ ExReturn

SpecExecutor == InitExecutor /\ [][NextExecutor]_vars

(***************************************************************************)
(* The scenario loop                                                       *)
(***************************************************************************)
InitApp ==
    /\ Standalone("app")
    /\ mcall = NoMetricsCall
    /\ ex = NoExecutorCall

AppUnchanged ==
    UNCHANGED <<config, funcKind, pc, raised, main, tasks, sem, released, sent,
                outputs, result, mcall, ex, log, clock>>

\* start_benchmark (l.215-219) starts the thread with the selected scenarios
AppStart ==
    /\ app.pc = "idle"
    /\ pc = "app"
    /\ \E n \in 0..MaxScenarios : app' = NewApp(n)
    /\ AppUnchanged

\* l.260: for i, scenario in enumerate(scenarios)
AppNext ==
    /\ app.pc = "loop"
    /\ app.i < app.selected
    /\ app' = [app EXCEPT !.pc = "sample", !.i = @ + 1]
    /\ AppUnchanged

\* l.295-315: inside the try, the requests of the scenario are sampled
AppSample ==
    /\ app.pc = "sample"
    /\ \E ok \in BOOLEAN :
          app' = IF ok THEN [app EXCEPT !.pc = "run"] ELSE AppFailed(app)
    /\ AppUnchanged

\* l.318: create_task(run_benchmark(...)) hands the coroutine to the loop
AppRun ==
    /\ app.pc = "run"
    /\ app' = [app EXCEPT !.pc = "wait", !.started = @ + 1]
    /\ AppUnchanged

\* l.319: task.result() blocks until run_benchmark has returned or raised;
\* l.323, l.362-367: `if results`
AppResult ==
    /\ app.pc = "wait"
    /\ \E o \in RunOutcomes :
          LET a == [app EXCEPT !.returned = @ + 1] IN
          app' = IF o = "result" THEN [a EXCEPT !.pc = "record"]
                 ELSE AppFailed(a)
    /\ AppUnchanged

\* l.325-344: the round is appended, its Markdown file is written, the
\* summary is logged and the scenario is counted
AppRecord ==
    /\ app.pc = "record"
    /\ \E ok \in BOOLEAN :
          LET a == [app EXCEPT !.all_round_results = Append(@, app.i)] IN
          app' = IF ok
                 THEN [a EXCEPT !.scenario_count = @ + 1, !.pc = "save"]
                 ELSE AppFailed(a)
    /\ AppUnchanged

\* l.346-361: the result file is written and the mail of the round is sent,
\* still inside the try
AppSave ==
    /\ app.pc = "save"
    /\ \E ok \in BOOLEAN :
          app' = IF ok THEN [app EXCEPT !.pc = "sleep"] ELSE AppFailed(app)
    /\ AppUnchanged

\* l.377: time.sleep(2)
AppSleep ==
    /\ app.pc = "sleep"
    /\ app' = [app EXCEPT !.pc = "loop"]
    /\ AppUnchanged

\* l.379-436: the loop has ended, the summary is built
AppFinish ==
    /\ app.pc = "loop"
    /\ app.i = app.selected
    /\ app' = [app EXCEPT !.pc = "finished"]
    /\ AppUnchanged

NextApp ==
    \/ AppStart
    \/ AppNext
    \/ AppSample
    \/ AppRun
    \/ AppResult
    \/ AppRecord
    \/ AppSave
    \/ AppSleep
    \/ AppFinish

SpecApp == InitApp /\ [][NextApp]_vars

TypeOK ==
    /\ config \in Configs
    /\ funcKind \in {"openai_request", "generic", "raising"}
    /\ released \in 0..MaxReq
    /\ sem \in {NoSem} \cup 0..MaxConc
    /\ Len(tasks) = released

(***************************************************************************)
(* Properties                                                              *)
(***************************************************************************)
AllCalls == {main} \cup {tasks[i].w : i \in TaskIds}
Running == {i \in TaskIds : tasks[i].st = "running"}
Min(a, b) == IF a < b THEN a ELSE b

\* the exception the transport raised inside openai_request, "None" if none
TransportException(t) ==
    IF t.connect = "None" THEN "None"
    ELSE IF t.connect # "ok" THEN t.connect
    ELSE IF t.status # 200 THEN (IF t.body \in Bodies THEN "None" ELSE t.body)
    ELSE ParseStream(t.lines, 0).exc

TransportFailed(t) == TransportException(t) # "None"

\* C1: with a concurrency cap N >= 1, at most N tasks are inside the guarded
\* executor call (slot acquired and not yet released) in every reachable state
C1_InFlightAtMostCap ==
    config.max_concurrency >= 1 =>
        /\ Cardinality(Running) <= config.max_concurrency
        /\ InFlight <= config.max_concurrency

C1_Witness ==
    /\ config.max_concurrency >= 1
    /\ Cardinality(Running) = config.max_concurrency
    /\ \E i \in TaskIds : Waiting(i)

\* C2: every acquired slot is released when the guarded call exits, by a
\* returned outcome or by an exception: slots are held by unfinished tasks
\* only, free slots plus held slots are always N, and N slots are free once
\* all tasks have finished
C2_SlotsReleased ==
    sem # NoSem =>
        /\ \A i \in TaskIds : tasks[i].held => tasks[i].st = "running"
        /\ sem + InFlight = config.max_concurrency
        /\ AllDone => sem = config.max_concurrency
        /\ (\E i \in TaskIds : Waiting(i)) /\ sem = 0
              => Cardinality(Running) = config.max_concurrency

C2_Witness ==
    /\ sem # NoSem
    /\ sem = config.max_concurrency
    /\ Len(tasks) >= 2
    /\ AllDone
    /\ \E i \in TaskIds : tasks[i].w.pc = "raised"
    /\ \E i \in TaskIds : tasks[i].w.pc = "returned" /\ ~tasks[i].w.result.success

\* C3 (as claimed): with burstiness <= 0 no request is sent to the endpoint
\* before the configuration error is raised
C3_NoRequestBeforeConfigError ==
    config.burstiness <= 0 => sent = NoneSent

SmokeFailed ==
    /\ main.input.url = "smoke"
    /\ main.pc = "returned"
    /\ ~main.result.success

\* C4: when the smoke-test request returns success = false the run aborts
\* with an error: no paced task is created, no profile hook is called and
\* the aggregator is not invoked
C4_SmokeFailureAborts ==
    SmokeFailed =>
        /\ pc \in {"smoke", "raised"}
        /\ pc = "raised" => raised = "ValueError_smoke"
        /\ tasks = <<>>
        /\ released = 0
        /\ sent = [NoneSent EXCEPT !["smoke"] = 1]
        /\ outputs = <<>>
        /\ result = NoResult

C4_Witness ==
    /\ SmokeFailed
    /\ pc = "raised"
    /\ raised = "ValueError_smoke"

Dispatched == [i \in TaskIds |-> tasks[i].desc]
SchedulerExhausted == pc \in {"gather", "stop_profile", "aggregate", "done"}

\* C5 (as claimed): the descriptor used by the smoke test is not dispatched
\* again in the paced run
C5_SmokeDescriptorNotRedispatched ==
    \A i \in TaskIds : tasks[i].desc # SmokeDesc

\* C5 (amended): the smoke test executes one descriptor, input_requests[0],
\* once and outside scheduler and limiter, and the paced run dispatches every
\* descriptor of the set, the smoke-test descriptor included, as tasks that
\* go through the limiter and the retry-wrapped executor
C5_AllDescriptorsDispatched ==
    /\ sent["smoke"] <= 1
    /\ pc = "smoke" => main.input.desc = SmokeDesc /\ tasks = <<>> /\ sem = NoSem
    /\ pc \notin {"start", "smoke", "raised"} => sent["smoke"] = 1
    /\ SchedulerExhausted =>
          /\ Dispatched = [i \in 1..config.n |-> i]
          /\ Dispatched[1] = SmokeDesc
    /\ \A i \in TaskIds :
          /\ tasks[i].w.input.desc = tasks[i].desc
          /\ tasks[i].w.max_attempts = MAX_ATTEMPTS
          /\ tasks[i].st = "running" /\ sem # NoSem => tasks[i].held

C5_Witness ==
    /\ pc = "done"
    /\ config.n >= 2
    /\ sent["smoke"] = 1
    /\ tasks[1].desc = SmokeDesc
    /\ tasks[1].st = "done"

\* C6 (as claimed): a paced request that ended on a transport-level failure
\* was attempted again, up to the ceiling of 3 attempts, before it became a
\* failed outcome
C6_TransportFailureRetried ==
    \A i \in TaskIds :
        tasks[i].st = "done" /\ TransportFailed(tasks[i].w.last)
            => tasks[i].w.calls = MAX_ATTEMPTS

NonSuccessStatus(t) ==
    t.connect = "ok" /\ t.status \notin 200..299

C8_ExhaustedReturnsFailedOutcome ==
    main.style = "kw" /\ main.attempts = main.max_attempts =>
        /\ main.pc = "returned"
        /\ main.result = RequestFuncOutput(FALSE, main.input.prompt_len, NoInt,
                             RetryError(main.max_attempts, main.last_exception))

\* C9: the wrapper invokes the function at most max_attempts times, returns
\* the result of the first attempt that does not raise without a further
\* attempt, and sleeps once between two attempts and never after the last:
\* k failed attempts give min(k, max_attempts - 1) sleeps
C9_RetryDiscipline ==
    /\ main.calls <= main.max_attempts
    /\ main.attempts <= main.max_attempts
    /\ main.pc = "inflight" =>
          main.calls = main.attempts + 1 /\ main.sleeps = main.attempts
    /\ main.pc = "sleep" =>
          /\ main.attempts < main.max_attempts
          /\ main.calls = main.attempts /\ main.sleeps = main.attempts
    /\ Finished(main) =>
          main.sleeps = Min(main.attempts, main.max_attempts - 1)
    /\ Finished(main) /\ main.attempts < main.max_attempts =>
          /\ main.pc = "returned"
          /\ ~main.got.raised
          /\ main.result = main.got.value
          /\ main.calls = main.attempts + 1
    /\ Finished(main) /\ main.attempts = main.max_attempts =>
          main.got.raised /\ main.calls = main.max_attempts

C9_Witness ==
    /\ pc = "retry"
    /\ Finished(main)
    /\ main.max_attempts = 3
    /\ main.attempts = 3
    /\ main.calls = 3
    /\ main.sleeps = 2

\* C10: whatever exception the transport raises during a request,
\* openai_request returns an outcome with success = false and the exception
\* message as error, and raises nothing to its caller (the retry wrapper
\* sees no exception)
C10_ExecutorNeverRaises ==
    \A c \in AllCalls :
        /\ c.pc \notin {"sleep", "raised"}
        /\ c.last_exception = "None"
        /\ ~c.got.raised
        /\ TransportFailed(c.last) =>
              /\ c.pc = "returned"
              /\ ~c.result.success
              /\ c.result.error = StrOf(TransportException(c.last))
              /\ c.result.prompt_len = c.input.prompt_len

C10_Witness ==
    \E i, j \in TaskIds :
        /\ tasks[i].st = "done"
        /\ tasks[i].w.last.connect = "ClientConnectorError"
        /\ tasks[i].w.result.error = StrOf("ClientConnectorError")
        /\ tasks[j].st = "done"
        /\ tasks[j].w.last.lines = <<"tok", "decode">>
        /\ tasks[j].w.result.error = StrOf("UnicodeDecodeError")

Succeeded == {i \in TaskIds : tasks[i].w.result.success}

\* C11: in a run that reaches aggregation the outcome list holds one outcome
\* per dispatched descriptor, the outcome of its task, and the result has
\* completed + failed = total_requests = number of dispatched descriptors
C11_OneOutcomePerDispatched ==
    /\ pc \in {"stop_profile", "aggregate", "done"} =>
          /\ Len(outputs) = Len(tasks)
          /\ Len(outputs) = config.n
          /\ \A i \in TaskIds : outputs[i] = tasks[i].w.result
    /\ pc = "done" =>
          /\ result.total_requests = Len(tasks)
          /\ result.completed = Cardinality(Succeeded)
          /\ result.failed = Cardinality(TaskIds \ Succeeded)
          /\ result.completed + result.failed = result.total_requests

C11_Witness ==
    /\ pc = "done"
    /\ result.total_requests >= 3
    /\ result.completed >= 1
    /\ result.failed >= 2

\* C12: calculate_metrics runs only after the scheduler is exhausted and all
\* tasks are joined: then no executor call is in flight, every task has
\* returned its outcome and the outcome list is complete
C12_AggregateAfterJoin ==
    (pc \in {"aggregate", "done"} \/ result # NoResult) =>
        /\ released = config.n
        /\ Len(tasks) = config.n
        /\ \A i \in TaskIds : /\ tasks[i].st = "done"
                              /\ tasks[i].w.pc = "returned"
                              /\ ~tasks[i].held
        /\ main.pc # "inflight"
        /\ outputs = [i \in TaskIds |-> tasks[i].w.result]

C12_Witness ==
    /\ pc = "aggregate"
    /\ config.n >= 2
    /\ config.max_concurrency = 1
    /\ config.request_rate = "finite"

PhaseRank(p) ==
    CASE p = "start" -> 0
      [] p = "smoke" -> 1
      [] p = "start_profile" -> 2
      [] p = "paced" -> 3
      [] p \in {"dispatch", "sched_sleep"} -> 4
      [] p = "gather" -> 5
      [] p = "stop_profile" -> 6
      [] p = "aggregate" -> 7
      [] p = "done" -> 8
      [] OTHER -> 9

C13_State ==
    /\ pc \in {"start", "smoke"} =>
          tasks = <<>> /\ sent["paced"] = 0 /\ sent["start_profile"] = 0
    /\ tasks # <<>> =>
          sent["smoke"] = 1 /\ (config.profile => sent["start_profile"] = 1)
    /\ sent["start_profile"] > 0 =>
          config.profile /\ sent["smoke"] = 1 /\ sent["start_profile"] = 1
    /\ sent["stop_profile"] > 0 =>
          /\ config.profile /\ sent["stop_profile"] = 1
          /\ released = config.n
          /\ \A i \in TaskIds : tasks[i].st = "done"
    /\ result # NoResult => pc = "done"

C13_Step ==
    /\ PhaseRank(pc) <= PhaseRank(pc')
    /\ pc = "smoke" /\ pc' \notin {"smoke", "raised"} =>
          main.pc = "returned" /\ main.result.success
    /\ pc = "start_profile" => tasks' = <<>>
    /\ result # NoResult => result' = result
    /\ result' # result => pc = "aggregate" /\ pc' = "done"

\* C13: run_benchmark goes through smoke test, paced run and aggregation in
\* that order and never back: no task before the smoke test returned with
\* success, the start hook after the smoke test and before the first
\* dispatch, the stop hook after the join, one aggregation
C13_PhaseOrder == []C13_State /\ [][C13_Step]_vars

C13_Witness ==
    /\ pc = "done"
    /\ config.profile
    /\ config.n >= 2
    /\ sent = [smoke |-> 1, start_profile |-> 1, stop_profile |-> 1,
               paced |-> config.n]

ValidConfig ==
    config.backend = "openai" /\ config.n > 0 /\ config.burstiness > 0

\* C14: with a valid configuration only a failed smoke test aborts the run:
\* a failed paced request (transport exception, non-200 status, bad stream)
\* is a failed outcome counted in the result, never an exception of
\* run_benchmark, and the run ends with a result
C14_OnlySmokeFailureAborts ==
    ValidConfig =>
        /\ raised # "None" => pc = "raised"
        /\ pc = "raised" =>
              raised = "ValueError_smoke" /\ SmokeFailed /\ tasks = <<>>
        /\ \A i \in TaskIds :
              tasks[i].st = "done" =>
                 /\ tasks[i].w.pc = "returned"
                 /\ ((TransportFailed(tasks[i].w.last)
                        \/ NonSuccessStatus(tasks[i].w.last))
                       => ~tasks[i].w.result.success)
        /\ pc = "done" =>
              /\ result.failed = Cardinality(TaskIds \ Succeeded)
              /\ result.total_requests = config.n
        /\ ~(ENABLED Next) => pc \in {"done", "raised"}

C14_Witness ==
    /\ ValidConfig
    /\ pc = "done"
    /\ result.failed >= 2
    /\ \E i \in TaskIds : tasks[i].w.last.connect = "ClientConnectorError"
    /\ \E i \in TaskIds : tasks[i].w.last.status = 500

C15_State ==
    /\ Len(tasks) = released
    /\ released <= config.n
    /\ \A i \in TaskIds : tasks[i].desc = i /\ tasks[i].w.input.desc = i
    /\ \A i, j \in TaskIds :
          i < j /\ tasks[j].st # "created" => tasks[i].st # "created"
    /\ SchedulerExhausted => released = config.n

C15_Step ==
    /\ released' \in {released, released + 1}
    /\ Len(tasks') = released'
    /\ \A i \in TaskIds : tasks'[i].desc = tasks[i].desc

\* C15: get_request releases the descriptors of its input once each, in
\* input order, and ends; tasks are created and started in that order,
\* whatever the order in which they complete
C15_ReleaseOrder == []C15_State /\ [][C15_Step]_vars

C15_Witness ==
    \E i, j \in TaskIds :
        /\ i < j
        /\ tasks[i].desc = i /\ tasks[j].desc = j
        /\ tasks[i].st = "running"
        /\ tasks[j].st = "done"

\* C16: with an unbounded request rate get_request never sleeps: all
\* descriptors are released and their tasks created before any task runs
C16_NoDelayWhenUnbounded ==
    config.request_rate = "inf" =>
        /\ pc # "sched_sleep"
        /\ (\E i \in TaskIds : tasks[i].st # "created") => released = config.n

C16_Witness ==
    /\ config.request_rate = "inf"
    /\ pc = "gather"
    /\ config.n >= 3
    /\ Len(tasks) = config.n
    /\ \A i \in TaskIds : tasks[i].st = "created"

(***************************************************************************)
(* Properties of calculate_metrics (SpecMetrics)                           *)
(***************************************************************************)
MetricsDone == mcall.pc \in {"done", "reported"}

\* the keys of the SLO map that calculate_metrics knows
ConfiguredSlos == DOMAIN mcall.goodput \cap {"ttft", "tpot", "e2el"}

\* the value of outcome o for an SLO key, in seconds
SloValue(o, k) ==
    IF k = "ttft" THEN o.ttft
    ELSE IF k = "e2el" THEN o.latency
    ELSE IF OutputLen(o) > 1
         THEN RDiv(RSub(o.latency, o.ttft), Rat(OutputLen(o) - 1, 1))
         ELSE Zero

\* outcome o is within the millisecond threshold configured for key k
MeetsSlo(o, k) == RLeq(Scale(SloValue(o, k), 1000), Rat(mcall.goodput[k], 1))

\* the number of requests counted as good: request_goodput * dur_s
GoodCount == RMul(mcall.metrics.request_goodput, mcall.dur_s)

CountOf(S) == Rat(Cardinality(S), 1)

\* C17: for every outcome list, duration > 0 and goodput configuration (an
\* empty one and one naming only unknown metrics included), the goodput is at
\* most the request throughput: the number of requests counted as good never
\* exceeds the number of completed requests
C17_GoodputAtMostThroughput ==
    MetricsDone =>
        /\ RLeq(mcall.metrics.request_goodput, mcall.metrics.request_throughput)
        /\ RLeq(GoodCount, Rat(mcall.metrics.completed, 1))
        /\ ConfiguredSlos = {} => mcall.metrics.request_goodput = Zero

C17_Witness ==
    /\ MetricsDone
    /\ ConfiguredSlos # {}
    /\ mcall.metrics.request_goodput # Zero
    /\ mcall.metrics.request_goodput # mcall.metrics.request_throughput

\* C18 as stated: a request is counted towards goodput exactly when it
\* succeeded and meets every threshold of the SLO map, for any subset of
\* ttft, tpot, e2el (the empty subset included)
C18_GoodExactlyWhenAllConfiguredMet ==
    MetricsDone =>
        GoodCount = CountOf({i \in DOMAIN mcall.outputs :
                        /\ mcall.outputs[i].success
                        /\ \A k \in ConfiguredSlos :
                              MeetsSlo(mcall.outputs[i], k)})

\* C18: when the SLO map configures at least one of ttft, tpot, e2el, a
\* request is counted towards goodput exactly when it succeeded and each
\* configured metric is within its threshold (milliseconds converted to
\* seconds, value <= threshold); when the map configures none of them, no
\* request is counted; failed requests are never counted
C18_GoodExactlyWhenConfiguredAndMet ==
    MetricsDone =>
        GoodCount = CountOf({i \in DOMAIN mcall.outputs :
                        /\ mcall.outputs[i].success
                        /\ ConfiguredSlos # {}
                        /\ \A k \in ConfiguredSlos :
                              MeetsSlo(mcall.outputs[i], k)})

C18_Witness ==
    /\ MetricsDone
    /\ Cardinality(ConfiguredSlos) >= 2
    /\ GoodCount = Rat(1, 1)
    /\ \E i \in DOMAIN mcall.outputs :
          /\ mcall.outputs[i].success
          /\ \E k \in ConfiguredSlos : MeetsSlo(mcall.outputs[i], k)
          /\ \E k \in ConfiguredSlos : ~MeetsSlo(mcall.outputs[i], k)

\* the successful outcomes, in the order of the outcome list
SuccessfulOutputs == SelectSeq(mcall.outputs, LAMBDA o : o.success)

\* the TPOT values of the successful outcomes with more than one output token
ExpectedTpots ==
    LET many == SelectSeq(SuccessfulOutputs, LAMBDA o : OutputLen(o) > 1) IN
    [j \in DOMAIN many |->
        RDiv(RSub(many[j].latency, many[j].ttft),
             Rat(OutputLen(many[j]) - 1, 1))]

\* C19: for each successful outcome TPOT is (latency - TTFT) /
\* (outputTokens - 1) and is in the TPOT sample of the statistics only when
\* outputTokens > 1; with outputTokens <= 1 it is exactly 0, is not in that
\* sample, and is the value the goodput check uses for the request
C19_TpotDefinition ==
    MetricsDone =>
        /\ Len(mcall.locals.all_tpots) = Len(SuccessfulOutputs)
        /\ \A j \in DOMAIN SuccessfulOutputs :
              LET o == SuccessfulOutputs[j]
                  t == mcall.locals.all_tpots[j] IN
              /\ OutputLen(o) > 1 =>
                    t = RDiv(RSub(o.latency, o.ttft), Rat(OutputLen(o) - 1, 1))
              /\ OutputLen(o) <= 1 => t = Zero
              /\ t # Zero => OutputLen(o) > 1
        /\ mcall.locals.tpots = ExpectedTpots
        /\ ExpectedTpots # <<>> =>
              /\ mcall.metrics.tpot.mean = Scale(Mean(ExpectedTpots), 1000)
              /\ mcall.metrics.tpot.median = Scale(Median(ExpectedTpots), 1000)
        /\ ConfiguredSlos = {"tpot"} =>
              GoodCount = CountOf({j \in DOMAIN SuccessfulOutputs :
                              RLeq(Scale(mcall.locals.all_tpots[j], 1000),
                                   Rat(mcall.goodput["tpot"], 1))})

C19_Witness ==
    /\ MetricsDone
    /\ ConfiguredSlos = {"tpot"}
    /\ \E j \in DOMAIN SuccessfulOutputs :
          /\ OutputLen(SuccessfulOutputs[j]) <= 1
          /\ SuccessfulOutputs[j].latency # SuccessfulOutputs[j].ttft
    /\ \E j \in DOMAIN SuccessfulOutputs :
          /\ OutputLen(SuccessfulOutputs[j]) > 1
          /\ mcall.locals.all_tpots[j] # Zero
    /\ Len(mcall.locals.tpots) = 1
    /\ GoodCount = Rat(1, 1)

ZeroStats(st) ==
    /\ st.mean = Zero
    /\ st.median = Zero
    /\ st.std_squared = Zero
    /\ \A p \in DOMAIN st.percentiles : st.percentiles[p] = Zero

DefinedStats(st) ==
    /\ st.mean # NaN
    /\ st.median # NaN
    /\ st.std_squared # NaN
    /\ \A p \in DOMAIN st.percentiles : st.percentiles[p] # NaN

\* C20: calculate_metrics does not fail on an empty sample: each of the TTFT,
\* TPOT, ITL and E2EL samples that is empty yields 0 for its mean, median,
\* std and every percentile; when every outcome failed (completed = 0) a
\* warning is emitted and completed, the token totals, the throughputs, the
\* goodput and all latency statistics are 0
C20_EmptySampleYieldsZero ==
    MetricsDone =>
        LET m == mcall.metrics
            loc == mcall.locals IN
        /\ loc.ttfts = <<>> => ZeroStats(m.ttft)
        /\ loc.tpots = <<>> => ZeroStats(m.tpot)
        /\ loc.itls = <<>> => ZeroStats(m.itl)
        /\ loc.e2els = <<>> => ZeroStats(m.e2el)
        /\ \A st \in {m.ttft, m.tpot, m.itl, m.e2el} : DefinedStats(st)
        /\ (\A i \in DOMAIN mcall.outputs : ~mcall.outputs[i].success) =>
              /\ m.warned
              /\ m.completed = 0
              /\ m.total_input = 0
              /\ m.total_output = 0
              /\ m.request_throughput = Zero
              /\ m.request_goodput = Zero
              /\ m.output_throughput = Zero
              /\ m.total_token_throughput = Zero
              /\ \A st \in {m.ttft, m.tpot, m.itl, m.e2el} : ZeroStats(st)

C20_Witness ==
    /\ MetricsDone
    /\ Len(mcall.outputs) = MaxOutputs
    /\ \A i \in DOMAIN mcall.outputs : ~mcall.outputs[i].success
    /\ mcall.goodput # <<>>
    /\ mcall.metrics.warned
    /\ ZeroStats(mcall.metrics.tpot)

(***************************************************************************)
(* Properties of run_benchmark, continued (Spec)                           *)
(***************************************************************************)
\* C23: with an unknown backend identifier or an empty descriptor set
\* run_benchmark raises before dispatch: no executor call, the smoke test
\* included, is made and no task is created
C23_ConfigErrorBeforeAnyCall ==
    (config.backend # "openai" \/ config.n = 0) =>
        /\ pc \in {"start", "raised"}
        /\ pc = "raised" => raised \in {"ValueError_backend", "IndexError"}
        /\ sent = NoneSent
        /\ main = NoCall
        /\ tasks = <<>>

C23_Witness ==
    /\ config.backend = "openai"
    /\ config.n = 0
    /\ pc = "raised"
    /\ raised = "IndexError"

LastLogged == IF log = <<>> THEN "None" ELSE log[Len(log)]

\* the hook request awaited last returned a failed outcome
HookFailed(url) ==
    /\ main.input.url = url
    /\ main.pc = "returned"
    /\ ~main.result.success

\* C26: with profiling enabled, a failed start-profile or stop-profile hook
\* request is logged through the log callback and does not abort the run
C26_HookFailureLoggedNotFatal ==
    config.profile /\ ValidConfig =>
        /\ pc = "paced" /\ HookFailed("start_profile") =>
              LastLogged # "profiler_starting"
        /\ pc = "aggregate" /\ HookFailed("stop_profile") =>
              LastLogged # "profiler_stopping"
        /\ pc = "raised" => main.input.url = "smoke"

(***************************************************************************)
(* Properties of one call of openai_request (SpecExecutor) and of the      *)
(* outcomes of the wrapper (SpecRetry)                                     *)
(***************************************************************************)
ExDone == ex.pc = "done"

\* the number of frames with a non-empty text among the lines
RECURSIVE TokenFrames(_)
TokenFrames(lines) ==
    IF lines = <<>> THEN 0
    ELSE (IF Head(lines) = "tok" THEN 1 ELSE 0) + TokenFrames(Tail(lines))

\* the line-by-line call returns what the operator openai_request gives for
\* the same transport
ExecutorAgrees ==
    ExDone => Untimed(ex.out) = openai_request(ex.input, ex.t).value

\* C21: every outcome of openai_request with success = true has
\* latency >= TTFT >= 0, and as many inter-token latencies as output tokens
\* minus one when at least two tokens arrived and none when fewer arrived,
\* for every sequence of stream lines and a clock that does not go back
C21_SuccessTimes ==
    ExDone /\ ex.out.success =>
        /\ ex.out.ttft >= 0
        /\ ex.out.latency >= ex.out.ttft
        /\ ex.out.output_tokens = TokenFrames(ex.t.lines)
        /\ Len(ex.out.itl) = IF ex.out.output_tokens >= 2
                             THEN ex.out.output_tokens - 1 ELSE 0
        /\ \A k \in DOMAIN ex.out.itl : ex.out.itl[k] >= 0
        /\ ex.out.ttft + SumInts(ex.out.itl) <= ex.out.latency

C21_Witness ==
    /\ ExDone
    /\ ex.out.success
    /\ ex.out.output_tokens >= 2
    /\ ex.out.ttft >= 1
    /\ ex.out.latency > ex.out.ttft
    /\ \E k \in DOMAIN ex.out.itl : ex.out.itl[k] > 0
    /\ \E k \in DOMAIN ex.t.lines : ex.t.lines[k] \in {"bad", "empty", "other"}

\* the Optional[str] error is not None
ErrorPresent(o) == o.error # NoError

\* C22: every outcome the executor returns and every outcome the retry
\* wrapper returns has an error message if and only if success is false
C22_ErrorIffFailed ==
    /\ main.got # NoAwait /\ ~main.got.raised =>
          (ErrorPresent(main.got.value) <=> ~main.got.value.success)
    /\ main.pc = "returned" =>
          (ErrorPresent(main.result) <=> ~main.result.success)

C22_Witness ==
    /\ pc = "retry"
    /\ main.pc = "returned"
    /\ main.style = "pos_input"
    /\ main.attempts = main.max_attempts
    /\ main.result.error = RetryError(main.max_attempts, main.last_exception)

\* the stream has no line whose handling raises
CleanStream(lines) ==
    \A k \in DOMAIN lines : lines[k] \notin {"decode", "shape", "entry"}

\* C24 (as claimed): the executor reads every 2xx response as a stream, to an
\* outcome with success = true, and returns a failed outcome at once for
\* exactly the non-2xx statuses
C24_Every2xxIsRead ==
    ex.t.connect = "ok" /\ ExDone =>
        /\ ex.t.status \in 200..299 /\ CleanStream(ex.t.lines) => ex.out.success
        /\ ex.out.error.kind = "http" => ex.t.status \notin 200..299
        /\ ex.t.status \notin 200..299 => ~ex.out.success

C25_State ==
    ExDone /\ ex.t.connect = "ok" /\ ex.t.status = 200
           /\ CleanStream(ex.t.lines) =>
        /\ ex.out.success
        /\ ex.out.error = NoError
        /\ ex.out.output_tokens = TokenFrames(ex.t.lines)

C25_Step ==
    ex.pc = "stream" /\ ex.rest # <<>> /\ Head(ex.rest) = "bad" =>
        /\ ex'.pc = "stream"
        /\ ex'.rest = Tail(ex.rest)
        /\ ex'.output_tokens = ex.output_tokens
        /\ ex'.ttft = ex.ttft
        /\ ex'.itl = ex.itl
        /\ ex'.first_token_received = ex.first_token_received
        /\ ex'.prev_token_time = ex.prev_token_time

\* C25: a malformed JSON fragment on a data line of a healthy stream is
\* skipped: it yields no token and changes neither TTFT nor the inter-token
\* list nor the token count, the tokens before and after it are recorded and
\* the outcome has success = true
C25_MalformedSkipped == []C25_State /\ [][C25_Step]_vars

C25_Witness ==
    /\ ExDone
    /\ ex.t.lines = <<"tok", "bad", "tok", "done">>
    /\ ex.out.success
    /\ ex.out.output_tokens = 2
    /\ Len(ex.out.itl) = 1

(***************************************************************************)
(* Properties of the timed run (SpecTimed)                                 *)
(***************************************************************************)
\* the number of full batches: n / cap rounded up, one batch without a cap
Batches(n, cap) == IF cap = 0 THEN 1 ELSE (n + cap - 1) \div cap

Joined == pc \in {"stop_profile", "aggregate", "done"}

\* C27: with a cap of 4, 20 descriptors, an unbounded rate and executor calls
\* of exactly one time unit, all tasks are joined 5 time units after the
\* paced run starts: the requests run in 20 / 4 full batches and the
\* scheduler adds no delay (all tasks are created at the start time)
C27_BatchedCompletion ==
    /\ pc = "gather" => Len(tasks) = config.n
    /\ pc \in {"dispatch", "gather"} /\ (\A i \in TaskIds : tasks[i].st = "created")
          => clock.now = clock.start
    /\ Joined =>
          clock.joined - clock.start = Batches(config.n, config.max_concurrency)
    /\ Joined /\ config.n = 20 /\ config.max_concurrency = 4 =>
          clock.joined - clock.start = 5

C27_Witness ==
    /\ pc = "done"
    /\ config.n = 20
    /\ config.max_concurrency = 4
    /\ config.request_rate = "inf"
    /\ result.completed = 20
    /\ clock.joined - clock.start = 5

(***************************************************************************)
(* Properties of the reported values (SpecMetrics)                         *)
(***************************************************************************)
SuccessfulIds == {i \in DOMAIN mcall.outputs : mcall.outputs[i].success}

IsScenario ==
    /\ Len(mcall.outputs) = 3
    /\ \A i \in 1..3 : /\ mcall.outputs[i].success
                       /\ mcall.outputs[i].output_tokens = 10
    /\ <<mcall.outputs[1].ttft, mcall.outputs[2].ttft, mcall.outputs[3].ttft>>
          = <<Rat(1, 10), Rat(2, 10), Rat(15, 100)>>
    /\ <<mcall.outputs[1].latency, mcall.outputs[2].latency,
         mcall.outputs[3].latency>> = <<Rat(1, 1), Rat(3, 2), Rat(6, 5)>>
    /\ mcall.dur_s = Rat(2, 1)

\* C28: request_throughput = completed / duration, output_throughput = sum
\* of the output tokens / duration, mean TTFT is in milliseconds; 3 successful
\* outcomes with TTFT 0.10, 0.20, 0.15 s, latency 1.0, 1.5, 1.2 s and 10
\* tokens each over 2.0 s give 1.5 req/s, 15.0 tok/s and a mean TTFT of 150 ms
C28_ThroughputAndMeanTtft ==
    MetricsDone =>
        LET m == mcall.metrics
            ttfts == [j \in DOMAIN SuccessfulOutputs |-> SuccessfulOutputs[j].ttft]
            tokens == [j \in DOMAIN SuccessfulOutputs |->
                          OutputLen(SuccessfulOutputs[j])] IN
        /\ m.completed = Cardinality(SuccessfulIds)
        /\ RMul(m.request_throughput, mcall.dur_s) = Rat(m.completed, 1)
        /\ RMul(m.output_throughput, mcall.dur_s) = Rat(SumInts(tokens), 1)
        /\ ttfts # <<>> =>
              RMul(m.ttft.mean, Rat(Len(ttfts), 1)) = RMul(RSum(ttfts), Rat(1000, 1))
        /\ IsScenario =>
              /\ m.request_throughput = Rat(3, 2)
              /\ m.output_throughput = Rat(15, 1)
              /\ m.ttft.mean = Rat(150, 1)

C28_Witness ==
    /\ MetricsDone
    /\ IsScenario
    /\ mcall.metrics.completed = 3
    /\ mcall.metrics.total_output = 30

\* C29: success rate and failure rate are completed and failed as
\* percentages of the total of dispatched requests (their sum is 100 when at
\* least one request was dispatched, both are 0 when none was), and with a
\* concurrency cap the per-concurrency output and total-token throughputs
\* are the throughputs divided by the cap
C29_RatesAndPerConcurrency ==
    mcall.pc = "reported" =>
        LET rep == mcall.report
            m == mcall.metrics
            total == Len(mcall.outputs)
            cap == mcall.max_concurrency IN
        /\ rep.total_requests = total
        /\ rep.failed = total - Cardinality(SuccessfulIds)
        /\ RMul(rep.success_rate, Rat(total, 1)) = Rat(100 * m.completed, 1)
        /\ RMul(rep.failure_rate, Rat(total, 1)) = Rat(100 * rep.failed, 1)
        /\ total > 0 => RAdd(rep.success_rate, rep.failure_rate) = Rat(100, 1)
        /\ total = 0 => rep.success_rate = Zero /\ rep.failure_rate = Zero
        /\ cap > 0 =>
              /\ RMul(rep.per_concurrency.per_concurrency_output_throughput,
                      Rat(cap, 1)) = m.output_throughput
              /\ RMul(rep.per_concurrency.per_concurrency_total_throughput,
                      Rat(cap, 1)) = m.total_token_throughput

C29_Witness ==
    /\ mcall.pc = "reported"
    /\ mcall.max_concurrency >= 2
    /\ mcall.report.total_requests >= 2
    /\ mcall.report.failed >= 1
    /\ mcall.metrics.completed >= 1
    /\ mcall.metrics.output_throughput # Zero

(***************************************************************************)
(* No deadline and no cancellation (Spec)                                  *)
(***************************************************************************)
NotReturned == {i \in TaskIds : tasks[i].st # "done"}

PastJoin == pc \in {"stop_profile", "aggregate", "done"} \/ result # NoResult

C30_State == PastJoin => released = config.n /\ NotReturned = {}

\* a task ends only by the outcome of its own executor call, a task that has
\* ended stays so, and the join is left for the next phase only by a step
\* that finds every task ended
C30_Step ==
    /\ \A i \in TaskIds :
          /\ tasks[i].st = "done" => tasks'[i] = tasks[i]
          /\ (tasks[i].st # "done" /\ tasks'[i].st = "done") =>
                /\ tasks[i].st = "running"
                /\ tasks[i].w.pc = "inflight"
                /\ tasks'[i].w.pc \in {"returned", "raised"}
    /\ (pc = "gather" /\ pc' \in {"stop_profile", "aggregate"}) =>
          /\ NotReturned = {}
          /\ tasks' = tasks

\* C30: run_benchmark has no per-request deadline and no cancellation: while
\* one dispatched executor call has not returned, the join does not return
\* and the orchestrator reaches neither the stop hook nor the aggregation,
\* even when all other requests have finished
C30_NoDeadlineNoCancellation == []C30_State /\ [][C30_Step]_vars

C30_Witness ==
    /\ pc = "gather"
    /\ config.n >= 2
    /\ released = config.n
    /\ Cardinality(NotReturned) = 1
    /\ \E i \in NotReturned : tasks[i].st = "running" /\ tasks[i].w.pc = "inflight"
    /\ ~SomeRaised

(***************************************************************************)
(* One executor call per dispatched descriptor (Spec)                      *)
(***************************************************************************)
Invoked == {i \in TaskIds : tasks[i].st \in {"running", "done"}}

\* C31: in the paced run the executor is invoked exactly once per dispatched
\* descriptor: openai_request returns a failed outcome for every exception,
\* so the retry wrapper around it makes no second attempt and never sleeps
\* its retry delay, whatever the transport does
C31_OneCallPerDescriptor ==
    /\ \A i \in TaskIds :
          /\ tasks[i].w.calls = (IF i \in Invoked THEN 1 ELSE 0)
          /\ tasks[i].w.attempts = 0
          /\ tasks[i].w.sleeps = 0
          /\ tasks[i].w.pc \in {"idle", "inflight", "returned"}
          /\ tasks[i].st = "done" => tasks[i].w.result = tasks[i].w.got.value
    /\ sent["paced"] = Cardinality(Invoked)
    /\ pc \in {"aggregate", "done"} => sent["paced"] = config.n

C31_Witness ==
    /\ pc = "aggregate"
    /\ config.n >= 2
    /\ sent["paced"] = config.n
    /\ \A i \in TaskIds : /\ TransportFailed(tasks[i].w.last)
                          /\ tasks[i].w.calls = 1
    /\ \E i, j \in TaskIds :
          /\ tasks[i].w.last.connect = "ClientConnectorError"
          /\ tasks[j].w.last.body = "ClientPayloadError"

(***************************************************************************)
(* Outcomes are aligned with the descriptors (Spec)                        *)
(***************************************************************************)
\* the sum of the prompt lengths of the descriptors whose request succeeded
RECURSIVE SumOver(_)
SumOver(S) ==
    IF S = {} THEN 0
    ELSE LET i == CHOOSE x \in S : TRUE IN
         InputRequests(config.n)[i].prompt_len + SumOver(S \ {i})

\* C32: the outcome list handed to the aggregator is index-aligned with the
\* descriptor list: outputs[i] is the outcome of the request built from
\* input_requests[i], in whatever order the requests completed, and the
\* prompt length calculate_metrics adds to total_input for a successful
\* outputs[i] is that of the descriptor that produced it
C32_OutputsAlignedWithDescriptors ==
    /\ pc \in {"stop_profile", "aggregate", "done"} =>
          \A i \in DOMAIN outputs :
             /\ tasks[i].desc = InputRequests(config.n)[i].desc
             /\ tasks[i].w.input.desc = tasks[i].desc
             /\ outputs[i] = tasks[i].w.got.value
             /\ outputs[i].prompt_len = InputRequests(config.n)[i].prompt_len
    /\ pc = "done" =>
          result.total_input =
              SumOver({i \in DOMAIN outputs : tasks[i].w.got.value.success})

C32_Witness ==
    /\ pc = "done"
    /\ Len(outputs) >= 3
    /\ ~outputs[1].success
    /\ outputs[2].success
    /\ outputs[3].success
    /\ result.total_input = 5

(***************************************************************************)
(* Termination (SpecLive)                                                  *)
(***************************************************************************)
\* the event loop runs every coroutine that is ready, every executor call
\* returns and every sleep of the scheduler ends
SpecLive ==
    /\ Init
    /\ [][Next]_vars
    /\ WF_vars(Orchestrator)
    /\ WF_vars(MainComplete)
    /\ WF_vars(\E i \in TaskIds : TaskStart(i))
    /\ WF_vars(\E i \in TaskIds : TaskWake(i))
    /\ WF_vars(\E i \in TaskIds : TaskComplete(i))

SmokePassed == ValidConfig /\ pc \in {"start_profile", "paced"}

Returned == pc = "done" /\ result # NoResult /\ result.total_requests = config.n

WaitsForSlot(i) == i \in TaskIds /\ Waiting(i)

HasSlot(i) == i \in TaskIds /\ tasks[i].st \in {"running", "done"}

\* C33: when every executor call returns and every sleep of the scheduler
\* ends, run_benchmark with a valid configuration and a successful smoke test
\* reaches its terminal state and returns a result, and no task waits forever
\* for a slot of the limiter
C33_Terminates ==
    /\ SmokePassed ~> Returned
    /\ \A i \in 1..MaxReq : WaitsForSlot(i) ~> HasSlot(i)

C33_Witness ==
    /\ Returned
    /\ ValidConfig
    /\ config.max_concurrency >= 1
    /\ config.n > config.max_concurrency
    /\ config.request_rate = "finite"

(***************************************************************************)
(* The trailing sleep of get_request (Spec)                                *)
(***************************************************************************)
FiniteRate == config.request_rate = "finite"

C34_State ==
    FiniteRate =>
        /\ clock.sleeps = released
        /\ clock.slept = (IF pc = "sched_sleep" THEN released - 1 ELSE released)
        /\ pc \in {"gather", "stop_profile", "aggregate", "done"} =>
              /\ released = config.n
              /\ clock.sleeps = config.n
              /\ clock.slept = config.n

\* the step that releases a descriptor, the last one included, begins a
\* sleep, and the join begins only by a step of get_request that follows the
\* end of the sleep after the last release
C34_Step ==
    FiniteRate =>
        /\ released' # released => pc' = "sched_sleep"
        /\ (pc # "gather" /\ pc' = "gather") =>
              /\ pc = "dispatch"
              /\ clock.slept = config.n

\* C34: with a finite request rate get_request sleeps for one sampled
\* interval after every released descriptor, the last one included: n sleeps
\* for n descriptors, and the join of the tasks does not begin before the
\* sleep after the last release has ended
C34_TrailingSleep == []C34_State /\ [][C34_Step]_vars

C34_Witness ==
    /\ FiniteRate
    /\ pc = "gather"
    /\ config.n >= 2
    /\ clock.sleeps = config.n
    /\ clock.slept = config.n
    /\ \A i \in TaskIds : tasks[i].st = "done"

(***************************************************************************)
(* The measured window (SpecTimed)                                         *)
(***************************************************************************)
HookTime == IF config.profile THEN 1 ELSE 0

\* C35: the measured duration starts after the smoke test and the
\* start-profile hook have returned and ends after the stop-profile hook
\* (when profiling is on) has returned: the smoke-test request is outside the
\* window and outside the outcome list, the stop-profile request is inside
\* the duration
C35_MeasuredWindow ==
    /\ (main.pc = "inflight" /\ main.input.url \in {"smoke", "start_profile"}) =>
          clock.start = 0 /\ tasks = <<>>
    /\ pc \in {"dispatch", "gather", "stop_profile", "aggregate", "done"} =>
          /\ clock.start = ExecLatency(funcKind) * (1 + HookTime)
          /\ sent["smoke"] = 1
          /\ sent["start_profile"] = HookTime
    /\ pc = "stop_profile" => result = NoResult
    /\ pc = "done" =>
          /\ sent["stop_profile"] = HookTime
          /\ result.duration =
                (clock.joined - clock.start) + ExecLatency(funcKind) * HookTime
          /\ Len(outputs) = config.n
          /\ \A i \in DOMAIN outputs : /\ outputs[i] = tasks[i].w.result
                                       /\ tasks[i].w.input.url = "paced"

C35_Witness ==
    /\ pc = "done"
    /\ config.profile
    /\ config.n >= 2
    /\ clock.start = 2
    /\ clock.joined > clock.start
    /\ result.duration = clock.joined - clock.start + 1
    /\ sent["smoke"] + sent["start_profile"] + sent["stop_profile"] = 3
    /\ Len(outputs) = config.n

(***************************************************************************)
(* TTFT and the inter-token latencies add up (SpecExecutor)                *)
(***************************************************************************)
\* C36: for every successful outcome of openai_request, TTFT plus the sum of
\* the inter-token latencies is the arrival time of the last token minus the
\* start of the request, hence at most the latency when the clock does not
\* go back, and each inter-token latency is >= 0; the sum is kept while the
\* stream is read
C36_TimesAddUp ==
    /\ ex.pc = "stream" =>
          /\ ex.ttft + SumInts(ex.itl) = ex.prev_token_time - ex.start_time
          /\ ex.prev_token_time <= ex.now
    /\ ExDone /\ ex.out.success =>
          /\ ex.out.ttft + SumInts(ex.out.itl) = ex.prev_token_time - ex.start_time
          /\ ex.prev_token_time - ex.start_time <= ex.out.latency
          /\ ex.out.latency = ex.now - ex.start_time
          /\ \A k \in DOMAIN ex.out.itl : ex.out.itl[k] >= 0

C36_Witness ==
    /\ ExDone
    /\ ex.out.success
    /\ ex.out.output_tokens >= 2
    /\ ex.start_time >= 1
    /\ ex.out.ttft >= 1
    /\ SumInts(ex.out.itl) >= 1
    /\ ex.out.ttft + SumInts(ex.out.itl) < ex.out.latency

(***************************************************************************)
(* A stream without a token (SpecExecutor)                                 *)
(***************************************************************************)
\* the call got a status-200 response whose stream was read to its end and
\* carried no frame with a non-empty text
TokenlessStream ==
    /\ ex.t.connect = "ok"
    /\ ex.t.status = 200
    /\ ParseStream(ex.t.lines, 0).exc = "None"
    /\ TokenFrames(ex.t.lines) = 0

Measured == ex.pc = "done" /\ mcall.pc = "done"

\* C37: a status-200 response whose stream delivers no token yields an
\* outcome with success = true, output_tokens = 0, TTFT = 0 and no
\* inter-token latency; calculate_metrics counts it as completed and puts
\* its TTFT of 0 into the TTFT sample
C37_TokenlessSuccess ==
    /\ ExDone /\ TokenlessStream =>
          /\ ex.out.success
          /\ ex.out.output_tokens = 0
          /\ ex.out.ttft = 0
          /\ ex.out.itl = <<>>
          /\ ex.out.error = NoError
    /\ Measured /\ TokenlessStream =>
          /\ mcall.outputs = <<InSeconds(ex.out)>>
          /\ mcall.metrics.completed = 1
          /\ ~mcall.metrics.warned
          /\ mcall.metrics.total_output = 0
          /\ mcall.locals.ttfts = <<Zero>>
          /\ mcall.locals.tpots = <<>>
          /\ mcall.metrics.ttft.mean = Zero

C37_Witness ==
    /\ Measured
    /\ TokenlessStream
    /\ Len(ex.t.lines) >= 2
    /\ \E k \in DOMAIN ex.t.lines : ex.t.lines[k] = "empty"
    /\ ex.out.latency >= 1
    /\ mcall.metrics.completed = 1
    /\ mcall.locals.ttfts = <<Zero>>

(***************************************************************************)
(* A frame of unexpected shape (SpecExecutor)                              *)
(***************************************************************************)
\* the exception that handling a line of this kind raises
ShapeException(kind) ==
    IF kind = "shape" THEN "TypeError" ELSE "AttributeError"

\* the stream of a status-200 response is read up to a frame of unexpected
\* shape
EndsOnShape ==
    /\ ex.t.connect = "ok"
    /\ ex.t.status = 200
    /\ ParseStream(ex.t.lines, 0).exc \in {"TypeError", "AttributeError"}

C38_State ==
    /\ ExDone /\ EndsOnShape =>
          /\ ~ex.out.success
          /\ ex.out.error = StrOf(ParseStream(ex.t.lines, 0).exc)
          /\ ex.out.prompt_len = ex.input.prompt_len
          /\ ex.out.output_tokens = NoInt
          /\ ex.out.itl = <<>>
          /\ ex.out.ttft = 0
          /\ ex.out.latency = 0
    /\ main.pc # "idle" =>
          /\ main.pc = "returned"
          /\ main.result = Untimed(ex.out)
          /\ main.calls = 1
          /\ main.attempts = 0
          /\ main.sleeps = 0

C38_Step ==
    ex.pc = "stream" /\ ex.rest # <<>> /\ Head(ex.rest) \in {"shape", "entry"} =>
        /\ ex'.pc = "done"
        /\ ~ex'.out.success
        /\ ex'.out.error = StrOf(ShapeException(Head(ex.rest)))

\* C38: a data line whose payload is JSON of an unexpected shape, so that
\* handling it raises, ends the request with success = false and the text of
\* the exception as error; the tokens received before it are not in the
\* outcome, and the request is not retried
C38_ShapeErrorFails == []C38_State /\ [][C38_Step]_vars

C38_Witness ==
    /\ ExDone
    /\ EndsOnShape
    /\ Len(ex.t.lines) >= 3
    /\ ex.t.lines[1] = "tok"
    /\ ex.t.lines[2] = "entry"
    /\ ex.output_tokens = 1
    /\ ex.out.output_tokens = NoInt
    /\ ex.out.error = StrOf("AttributeError")
    /\ main.pc = "returned"
    /\ main.calls = 1

(***************************************************************************)
(* The scenario loop (SpecApp)                                             *)
(***************************************************************************)
\* C39 (as claimed): the selected scenarios run strictly one after another,
\* a scenario that raises or returns an empty result is recorded as failed
\* and does not stop the later ones, and when the loop ends scenario_count +
\* failed_scenarios is the number of selected scenarios
C39_SequentialAndAllCounted ==
    /\ app.started - app.returned = (IF app.pc = "wait" THEN 1 ELSE 0)
    /\ app.started <= app.i
    /\ app.failed_scenarios = Len(app.failed_scenarios_info)
    /\ app.pc = "finished" =>
          /\ app.i = app.selected
          /\ app.scenario_count + app.failed_scenarios = app.selected
====
